---- MODULE Spec2Model ----
(***************************************************************************)
(* Client-side orchestration of the remote sequential-workflow service.    *)
(*                                                                         *)
(* Three clients of the repository are modelled side by side:              *)
(*   "simple"  SimpleWorkflowClient            (simple_workflow_client.py) *)
(*   "demo"    SequentialWorkflowDemo          (sequential_workflow_demo.py)*)
(*   "updated" UpdatedSequentialWorkflowDemo   (..._demo_updated.py), which *)
(*             drives a SimpleWorkflowClient and adds its own streaming    *)
(*             reader and fallbacks.                                       *)
(* One action is one HTTP exchange together with the client code that runs *)
(* until the next exchange.  The server is nondeterministic: every status  *)
(* a request can be answered with is possible, a transport error (the      *)
(* requests exception) is status 0.                                        *)
(***************************************************************************)
EXTENDS Integers, Sequences, FiniteSets, TLC

\* ------------------------------------------------------------------ bounds
MaxCalls == 2        \* register calls in a row on the same client
MaxLines == 2        \* lines of one streamed response body
MaxStreamLines == 5  \* lines of a body given to the stream reader on its own
MaxSteps == 3        \* builder calls made on one SimpleWorkflow

\* ------------------------------------------------------- data of the model
NoStatus == 0        \* a transport error: requests raised, there is no status

EmptyMap == [n \in {} |-> ""]

\* Listings GET /api/v1/agents can return: name -> id, "" is an entry whose id
\* is missing or empty.
Directories ==
  { [n \in {"writer", "editor"} |-> IF n = "writer" THEN "abc-123" ELSE "e-1"],
    [n \in {"writer", "editor"} |-> IF n = "writer" THEN "abc-456" ELSE ""],
    EmptyMap }

Step(sid, agent) == [step_id |-> sid, agent |-> agent]

\* The caller's workflows (one workflow id, "w1"): steps in insertion order.
\* In SimpleWorkflow a step holds agent_name; in the demo's dict the same
\* slot is the step's 'agent_id' entry, which the caller fills with a name.
Workflows ==
  { << Step("s1", "writer") >>,
    << Step("s1", "writer"), Step("s2", "editor") >> }

\* A definition left in the store by an earlier writer.
OldDef == << Step("s0", "old-id") >>

PostStatuses   == {201, 409, 500, NoStatus}
DeleteStatuses == {200, 204, 404, 500, NoStatus}
GetStatuses    == {200, 404, 500, NoStatus}
AgentsStatuses == {200, 500, NoStatus}

VARIABLES
  entry,       \* the caller-level operation in use (see Entries)
  streaming,   \* the caller asked for streaming execution
  stage,       \* updated demo: "primary", "fallback1" or "fallback2" of the
               \* streaming wrapper, "direct" when called with streaming=False
  pc,          \* position of the running caller-level operation
  workflow,    \* the caller's Workflow: its steps
  agentsCache, \* SimpleWorkflowClient._agents_cache
  directory,   \* the server's agent listing
  store,       \* the server's workflow store for "w1": {} or {definition}
  honest,      \* every answer so far was the one a create-or-409 store gives
  posted,      \* the definition the running register call posts
  calls,       \* HTTP exchanges of the running register call, in order
  regResult,   \* outcome of the running/last register call
  history,     \* outcomes of the finished register calls, oldest first
  execLog,     \* execute-side requests of the running operation, in order
  result,      \* what the operation returned to its caller (JNull: None)
  finalResult, \* stream reader: final_result
  currentStep, \* stream reader: current_step
  stepOutput,  \* stream reader: current_step_output, as its characters
  linesRead,   \* stream reader: lines consumed from the response body
  respBody,    \* normalizer specification: the 200 response's body
  shown,       \* the step collection display_workflow_result listed
  printed,     \* stream consumers: the texts written to the output, in order
  buffer,      \* stream parser: the characters received and not yet split off
  unread,      \* the part of the body not yet received (characters; lines in
               \* the strategy-pair specification)
  lastResp,    \* the latest execute-side response: status, type, document
  linesSeen    \* reader specifications: the lines of the body handled so far

vars == << entry, streaming, stage, pc, workflow, agentsCache, directory,
           store, honest, posted, calls, regResult, history, execLog,
           result, finalResult, currentStep, stepOutput, linesRead,
           respBody, shown, printed, buffer, unread, lastResp, linesSeen >>

regVars    == << store, honest, posted, calls, regResult, history >>
readerVars == << finalResult, currentStep, stepOutput, linesRead >>
fixedVars  == << entry, streaming, agentsCache, directory, respBody >>
obsVars    == << lastResp, linesSeen >>

Call(m, st) == [m |-> m, st |-> st]

\* ------------------------------------------------------------- the server
\* Mutant of HonestPost: a store that lets a POST replace a definition.
HonestPost_Overwrite(s) == {201}

\* What a create-or-409 store with no other writer answers.
HonestPost(s)   == IF s = {} THEN {201} ELSE {409}
HonestDelete(s) == IF s = {} THEN {404} ELSE {200, 204}
HonestGet(s)    == IF s = {} THEN {404} ELSE {200}

StoreAfterPost(s, st, def) == IF st = 201 THEN {def} ELSE s
StoreAfterDelete(s, st)    == IF st \in {200, 204} THEN {} ELSE s

\* ------------------------------------------------------------- resolution
\* get_agent_name_mapping / _discover_agents: entries with a name and an id.
AgentMapping(listing) ==
  [n \in {m \in DOMAIN listing : listing[m] # ""} |-> listing[n]]

\* list_available_agents: the listing on 200, [] otherwise.
ListAvailableAgents(st, listing) == IF st = 200 THEN listing ELSE EmptyMap

\* _convert_workflow_to_api: None (here <<>> with ok = FALSE) as soon as one
\* step's agent is missing from the cache.
ConvertOk(wf, cache) == \A i \in 1..Len(wf) : wf[i].agent \in DOMAIN cache

ConvertWorkflowToApi(wf, cache) ==
  [i \in 1..Len(wf) |-> Step(wf[i].step_id, cache[wf[i].agent])]

\* update_workflow_with_agent_ids: substitute where the name is mapped, leave
\* the step as it is where it is not.
UpdateWorkflowWithAgentIds(wf, mapping) ==
  [i \in 1..Len(wf) |->
     IF wf[i].agent \in DOMAIN mapping
       THEN Step(wf[i].step_id, mapping[wf[i].agent])
       ELSE wf[i]]

\* ------------------------------------------------------------ JSON values
\* A parsed JSON value, as Python holds it.  JSON null parses to None, so
\* JNull is also Python's None (a call that "returns None").  An object keeps
\* its keys in insertion order, as a Python dict does.
JNull        == [k |-> "null"]
JBool(b)     == [k |-> "bool", b |-> b]
JStr(s)      == [k |-> "str", s |-> s]
JNum(n)      == [k |-> "num", n |-> n]
JList(items) == [k |-> "list", items |-> items]
JObj(keys, val) == [k |-> "obj", keys |-> keys, val |-> val]

\* A response body that is not a JSON document, and an empty body.
NotJson   == [k |-> "invalid"]
EmptyBody == [k |-> "empty"]

EmptyObj == JObj(<< >>, [x \in {} |-> JNull])

Range(seq) == {seq[i] : i \in 1..Len(seq)}

IsDict(v) == v.k = "obj"
HasKey(o, key) == key \in Range(o.keys)

\* d[key] = v on a dict: a new key goes last, an old one keeps its place.
ObjPut(o, key, v) ==
  JObj(IF HasKey(o, key) THEN o.keys ELSE Append(o.keys, key),
       [x \in Range(o.keys) \cup {key} |-> IF x = key THEN v ELSE o.val[x]])

\* d.get(key, default)
ObjGet(o, key, default) == IF HasKey(o, key) THEN o.val[key] ELSE default

\* bool(v)
Truthy(v) ==
  CASE v.k = "null" -> FALSE
    [] v.k = "bool" -> v.b
    [] v.k = "str"  -> v.s # ""
    [] v.k = "num"  -> v.n # 0
    [] v.k = "list" -> v.items # << >>
    [] v.k = "obj"  -> v.keys # << >>

\* `key in v` raises TypeError on None, a bool and a number.
InRaises(v) == v.k \in {"null", "bool", "num"}

\* `key in v` where it does not raise: a dict's keys, a list's elements and,
\* for a string, substring search (the strings of this model are "" and
\* short words that contain none of the probed keys unless equal to one).
In(key, v) ==
  CASE v.k = "obj"  -> HasKey(v, key)
    [] v.k = "list" -> JStr(key) \in Range(v.items)
    [] v.k = "str"  -> v.s = key
    [] OTHER -> FALSE

\* ------------------------------------------------------ result handling
\* response.json() raises on a body that is no JSON document.
JsonRaises(body) == body.k \in {"invalid", "empty"}

\* The client-measured wall-clock time and the names derived from the call's
\* workflow id "w1" ("w1".replace('_', ' ').title() is "W1").
MeasuredTime   == JNum(7)
CallWorkflowId == JStr("w1")
CallWorkflowName == JStr("W1")

\* Mutant of StepKeyFallbacks: the probe order reversed.
StepKeyFallbacks_Reversed == << "results", "executed_steps", "steps" >>

\* execute_workflow's probe for the step results when 'step_results' is not
\* in the body: the first of these keys that is.
StepKeyFallbacks == << "steps", "executed_steps", "results" >>

FirstPresent(o, keys) ==
  IF \E i \in 1..Len(keys) : HasKey(o, keys[i])
    THEN LET i == CHOOSE j \in 1..Len(keys) :
                    /\ HasKey(o, keys[j])
                    /\ \A h \in 1..(j - 1) : ~HasKey(o, keys[h])
         IN << keys[i] >>
    ELSE << >>

BackfillStepResults(o) ==
  IF HasKey(o, "step_results") THEN o
  ELSE LET hit == FirstPresent(o, StepKeyFallbacks)
       IN IF hit = << >> THEN o ELSE ObjPut(o, "step_results", o.val[hit[1]])

\* Mutant of Backfill: the client's value is written whatever the body holds.
Backfill_Overwrite(o, key, v) == ObjPut(o, key, v)

\* if key not in result: result[key] = v
Backfill(o, key, v) == IF HasKey(o, key) THEN o ELSE ObjPut(o, key, v)

\* SequentialWorkflowDemo.execute_workflow on a 200 body that is a dict after
\* unwrapping: the three backfills, then the step-results probe.
NormalizeDict(o) ==
  BackfillStepResults(
    Backfill(Backfill(Backfill(o, "total_execution_time_ms", MeasuredTime),
                      "workflow_id", CallWorkflowId),
             "workflow_name", CallWorkflowName))

\* display_workflow_result's own probe: the step collection it lists is
\* 'step_results' when that is non-empty, otherwise the first of the fallback
\* keys that holds a dict, otherwise whatever 'step_results' held (None when
\* the key is absent).
DisplayKeyFallbacks == << "steps", "executed_steps", "results" >>

DisplayStepResults(r) ==
  LET sr   == ObjGet(r, "step_results", JNull)
      hits == SelectSeq(DisplayKeyFallbacks,
                        LAMBDA key : HasKey(r, key) /\ IsDict(r.val[key]))
  IN IF Truthy(sr) \/ hits = << >> THEN sr ELSE r.val[hits[1]]

\* execute_workflow's unwrapping: only a dict under 'data' is unwrapped.
DemoUnwrap(v) ==
  IF IsDict(v) /\ HasKey(v, "data") /\ IsDict(v.val["data"])
    THEN v.val["data"] ELSE v

\* SequentialWorkflowDemo.execute_workflow, from the response to the value it
\* returns.  A body that is not a dict after unwrapping makes the backfill
\* raise TypeError, which the method's except turns into None.
DemoExecuteWorkflow(st, body) ==
  IF st # 200 \/ JsonRaises(body) THEN JNull
  ELSE LET r == DemoUnwrap(body)
       IN IF IsDict(r) THEN NormalizeDict(r) ELSE JNull

\* SimpleWorkflowClient.execute_workflow: what it returns when the conversion
\* fails (line 303), when registration fails (line 308), when execution fails.
ReturnedOnFailure(kind) ==
  CASE kind = "resolution"   -> JNull
    [] kind = "registration" -> JNull
    [] OTHER                 -> JNull

\* Mutant of SimpleExecuteSync: the body is returned whatever the status.
SimpleExecuteSync_AnyStatus(st, body) ==
  IF JsonRaises(body) THEN JNull
  ELSE IF IsDict(body) /\ HasKey(body, "data") THEN body.val["data"] ELSE body

\* SimpleWorkflowClient._execute_sync: unwrap 'data' whatever it holds, no
\* other reshaping.
SimpleExecuteSync(st, body) ==
  IF st # 200 \/ JsonRaises(body) THEN JNull
  ELSE IF IsDict(body) /\ HasKey(body, "data") THEN body.val["data"] ELSE body

\* `'data' in v` then v['data'], as the updated demo writes it without a type
\* test: raises on a non-container and on a list or string that holds "data".
UnguardedUnwrapRaises(v) == InRaises(v) \/ (In("data", v) /\ ~IsDict(v))
UnguardedUnwrap(v) == IF In("data", v) THEN v.val["data"] ELSE v

\* _stream_workflow_execution when the 200 response is not an event stream:
\* the whole body is one JSON document.  Every exception ends in None.
UpdatedJsonBody(body) ==
  IF JsonRaises(body) \/ UnguardedUnwrapRaises(body) THEN JNull
  ELSE LET fr == UnguardedUnwrap(body)
       IN IF Truthy(fr) /\ (InRaises(fr) \/ (In("final_output", fr) /\ ~IsDict(fr)))
            THEN JNull ELSE fr

\* _stream_workflow_execution's GET .../status: does it raise (which skips
\* the synchronous fallback inside the method), and what it yields if not.
UpdatedStatusRaises(st, body) ==
  st = NoStatus \/ (st = 200 /\ (JsonRaises(body) \/ ~IsDict(body)))

UpdatedStatusResult(st, body) ==
  IF st = 200 /\ ObjGet(body, "status", JNull) = JStr("completed")
    THEN ObjGet(body, "result", body) ELSE JNull

\* _stream_workflow_execution's synchronous fallback POST.
UpdatedFallbackSync(st, body) ==
  IF st # 200 \/ JsonRaises(body) \/ UnguardedUnwrapRaises(body) THEN JNull
  ELSE UnguardedUnwrap(body)

\* _display_step_by_step_results raises on a result that is not a dict, on
\* non-empty step results that are not a dict, and on a step entry that is
\* not a dict.
DisplayRaises(r) ==
  \/ ~IsDict(r)
  \/ LET sr == ObjGet(r, "step_results", EmptyObj)
     IN /\ Truthy(sr)
        /\ \/ ~IsDict(sr)
           \/ \E key \in Range(sr.keys) : ~IsDict(sr.val[key])

\* ------------------------------------------------- decisions of the code
\* register_workflow: True on 201 only; 409, any other status and an
\* exception all give False.
RegisterWorkflow(st) == st = 201

\* Mutant of VerifyWorkflowRegistration: a 404 passes verification.
VerifyWorkflowRegistration_Lenient(st) == st \in {200, 404}

\* verify_workflow_registration: True on 200 only.
VerifyWorkflowRegistration(st) == st = 200

\* Mutant of DeleteWorkflow: a server error taken as "now absent" too.
DeleteWorkflow_Any(st) == st # NoStatus

\* delete_workflow: 200, 204 and 404 all mean "now absent".
DeleteWorkflow(st) == st \in {200, 204, 404}

\* Mutants of SimpleAfterFirstPost: a 409 surfaced as a failure; cleanup after
\* any refused POST.
SimpleAfterFirstPost_No409Cleanup(st) == IF st = 201 THEN "ok" ELSE "failed"

SimpleAfterFirstPost_AcceptExisting(st) ==
  IF st \in {201, 409} THEN "ok" ELSE "failed"

SimpleAfterFirstPost_AnyFailure(st) == IF st = 201 THEN "ok" ELSE "cleanup"

\* _register_workflow_with_cleanup, after the first POST.
SimpleAfterFirstPost(st) ==
  IF st = 201 THEN "ok" ELSE IF st = 409 THEN "cleanup" ELSE "failed"

\* Mutant of SimpleDeleteOk: a 404 from DELETE taken as a failure.
SimpleDeleteOk_No404(st) == st \in {200, 204}

\* _register_workflow_with_cleanup, the DELETE's status test.
SimpleDeleteOk(st) == st \in {200, 204, 404}


\* ------------------------------------------------------- response bodies
SuccessTrue == JBool(TRUE)

StepOk == JObj(<< "success", "output" >>,
               [x \in {"success", "output"} |->
                  IF x = "success" THEN SuccessTrue ELSE JStr("a")])

StepsMap == JObj(<< "s1" >>, [x \in {"s1"} |-> StepOk])

\* {"success": true, "step_results": {"s1": {...}}}
BodyOk == JObj(<< "success", "step_results" >>,
               [x \in {"success", "step_results"} |->
                  IF x = "success" THEN SuccessTrue ELSE StepsMap])

\* {"data": {...BodyOk...}}
BodyWrapped == JObj(<< "data" >>, [x \in {"data"} |-> BodyOk])

\* {"step_results": [1]}: step results that are a list
BodyListSteps == JObj(<< "step_results" >>,
                      [x \in {"step_results"} |-> JList(<< JNum(1) >>)])

\* Bodies of an execute response in the flow specification.
FlowBodies ==
  { BodyOk, BodyWrapped, BodyListSteps, JList(<< JNum(1) >>), EmptyObj,
    JNull, NotJson }

StatusObj(status, withResult) ==
  IF withResult
    THEN JObj(<< "status", "result" >>,
              [x \in {"status", "result"} |->
                 IF x = "status" THEN JStr(status) ELSE BodyOk])
    ELSE JObj(<< "status" >>, [x \in {"status"} |-> JStr(status)])

\* Bodies of a GET .../status response.
StatusBodies ==
  { StatusObj("completed", TRUE), StatusObj("completed", FALSE),
    StatusObj("running", FALSE), JList(<< JNum(1) >>), NotJson }

\* {"data": 5}
BodyDataNum == JObj(<< "data" >>, [x \in {"data"} |-> JNum(5)])

\* Bodies of a 200 answer to the streaming POST of the two demos: those of
\* FlowBodies and documents that are no object: a number, an empty list, and
\* an object whose 'data' member is a number.
StreamBodies == FlowBodies \cup { JNum(5), JList(<< >>), BodyDataNum }

ExecStatuses   == {200, 500, NoStatus}
ContentTypes   == {"text/event-stream", "application/json", "text/plain"}

\* ------------------------------------------------------ the SSE response
Event(type) == JObj(<< "type" >>, [x \in {"type"} |-> JStr(type)])

\* The lines a streamed body is made of, already split at "\n" and stripped.
\* kind "data": a `data:` line whose payload parses as JSON; "text": a
\* `data:` line whose payload does not parse ("" for an empty payload);
\* "done": the payload [DONE]; "event", "comment": lines starting `event:`
\* and `:`; "other": any other non-empty line; "blank": an empty line.
DataJson(v) == [kind |-> "data", json |-> v]
DataText(t) == [kind |-> "text", text |-> t]
PlainLine(kind) == [kind |-> kind]

Lines ==
  { DataJson(ObjPut(Event("step_start"), "step_name", JStr("S1"))),
    DataJson(ObjPut(Event("token"), "token", JStr("a"))),
    DataJson(ObjPut(Event("llm_token"), "content", JStr("b"))),
    DataJson(ObjPut(Event("token"), "token", JNum(1))),
    DataJson(ObjPut(Event("output"), "output", JStr("c"))),
    DataJson(ObjPut(Event("step_complete"), "success", SuccessTrue)),
    DataJson(ObjPut(Event("workflow_complete"), "result", BodyOk)),
    DataJson(Event("workflow_complete")),
    DataJson(ObjPut(Event("error"), "message", JStr("m"))),
    DataJson(BodyOk),
    DataJson(JNum(1)),
    DataText("x"), DataText(""),
    PlainLine("done"), PlainLine("event"), PlainLine("comment"),
    PlainLine("other"), PlainLine("blank") }

\* An execute-side response as the client uses it: the status (NoStatus when
\* the request raised), the content type where the client looks at it, and
\* the body where the client reads it as one JSON document (Unread where it
\* does not: a status other than 200, a body read line by line).
Unread == [k |-> "unread"]
NoResponse == [st |-> NoStatus, ct |-> "", doc |-> Unread]
\* The body of a streamed response whose connection failed while it was read.
Broken == [k |-> "broken"]
ReadEnded(how, resp) == IF how = "error" THEN [resp EXCEPT !.doc = Broken] ELSE resp

Response(st, ct, doc) ==
  [st |-> st, ct |-> IF st = 200 THEN ct ELSE "",
   doc |-> IF st = 200 THEN doc ELSE Unread]

\* The reader's local variables.
Reader(final, step, out) == [final |-> final, step |-> step, out |-> out]

TokenTypes  == {JStr("llm_token"), JStr("token")}
OutputTypes == {JStr("llm_output"), JStr("output")}

\* Mutant of PayloadOf: only the 'content' member is looked at.
PayloadOf_ContentOnly(ev) == ObjGet(ev, "content", JStr(""))

\* event_data.get('token', event_data.get('content', '')) and its twin.
PayloadOf(ev) ==
  IF ObjGet(ev, "type", JNull) \in TokenTypes
    THEN ObjGet(ev, "token", ObjGet(ev, "content", JStr("")))
    ELSE ObjGet(ev, "output", ObjGet(ev, "content", JStr("")))

\* current_step_output += payload raises TypeError on a payload that is
\* truthy and not a string.
UpdatedLineRaises(line) ==
  /\ line.kind = "data"
  /\ IsDict(line.json)
  /\ ObjGet(line.json, "type", JNull) \in TokenTypes \cup OutputTypes
  /\ Truthy(PayloadOf(line.json))
  /\ PayloadOf(line.json).k # "str"

\* Mutant of UpdatedOnEvent: an error event is taken as the outcome.
UpdatedOnEvent_ErrorIsFinal(ev, r) ==
  IF ~IsDict(ev) THEN r
  ELSE LET type == ObjGet(ev, "type", JStr("unknown"))
       IN CASE type = JStr("step_start") ->
                 Reader(r.final, ObjGet(ev, "step_name", JStr("Step n")), << >>)
            [] type = JStr("step_complete") -> Reader(r.final, JNull, r.out)
            [] type = JStr("workflow_complete") ->
                 IF IsDict(r.final) /\ ObjGet(r.final, "type", JNull) = JStr("error")
                   THEN r
                   ELSE Reader(ObjGet(ev, "result", ev), r.step, r.out)
            [] type \in TokenTypes \cup OutputTypes ->
                 IF Truthy(PayloadOf(ev))
                   THEN Reader(r.final, r.step, Append(r.out, PayloadOf(ev).s))
                   ELSE r
            [] type = JStr("error") -> Reader(ev, r.step, r.out)
            [] OTHER ->
                 IF HasKey(ev, "final_output") \/ HasKey(ev, "step_results")
                   THEN Reader(ev, r.step, r.out) ELSE r

\* _stream_workflow_execution: the effect of one parsed `data:` JSON event.
UpdatedOnEvent(ev, r) ==
  IF ~IsDict(ev) THEN r
  ELSE LET type == ObjGet(ev, "type", JStr("unknown"))
       IN CASE type = JStr("step_start") ->
                 Reader(r.final, ObjGet(ev, "step_name", JStr("Step n")), << >>)
            [] type = JStr("step_complete") -> Reader(r.final, JNull, r.out)
            [] type = JStr("workflow_complete") ->
                 Reader(ObjGet(ev, "result", ev), r.step, r.out)
            [] type \in TokenTypes \cup OutputTypes ->
                 IF Truthy(PayloadOf(ev))
                   THEN Reader(r.final, r.step, Append(r.out, PayloadOf(ev).s))
                   ELSE r
            [] type = JStr("error") -> r
            [] OTHER ->
                 IF HasKey(ev, "final_output") \/ HasKey(ev, "step_results")
                   THEN Reader(ev, r.step, r.out) ELSE r

\* Mutant of UpdatedOnLine: a payload that is no JSON is skipped.
UpdatedOnLine_DropText(line, r) ==
  CASE line.kind = "data" -> UpdatedOnEvent(line.json, r)
    [] OTHER -> r

\* _stream_workflow_execution: the effect of one line of the body.
UpdatedOnLine(line, r) ==
  CASE line.kind = "data" -> UpdatedOnEvent(line.json, r)
    [] line.kind = "text" ->
         IF line.text # "" THEN Reader(r.final, r.step, Append(r.out, line.text))
         ELSE r
    [] OTHER -> r

\* _parse_streaming_response / _parse_workflow_streaming_response followed by
\* the consumer's loop: a chunk that is a dict becomes the final result.
LastDictOnLine(line, r) ==
  IF line.kind = "data" /\ IsDict(line.json)
    THEN Reader(line.json, r.step, r.out) ELSE r

\* execute_workflow_streaming's stand-in result when no dict chunk arrived.
DemoInferredResult ==
  JObj(<< "status", "message", "execution_time" >>,
       [x \in {"status", "message", "execution_time"} |->
          IF x = "status" THEN JStr("success")
          ELSE IF x = "message" THEN JStr("Workflow completed successfully")
          ELSE MeasuredTime])


\* ---------------------------------------------------------------- state
\* The caller-level operations:
\*   simple.register   _convert_workflow_to_api + _register_workflow_with_cleanup
\*   demo.register     register_workflow_with_cleanup
\*   simple.execute    SimpleWorkflowClient.execute_workflow
\*   demo.run          run_automated_demo's loop body: register, then execute
\*   updated.execute   _execute_workflow_with_enhanced_output, with streaming
\*                     (the wrapper's own streaming call and its fallbacks) or
\*                     without (client.execute_workflow, then the display)
RegisterEntries == {"simple.register", "demo.register"}
ExecuteEntries  == {"simple.execute", "demo.run", "updated.execute"}
Entries == RegisterEntries \cup ExecuteEntries

FreshReader == Reader(JNull, JNull, << >>)

Init ==
  /\ entry \in Entries
  /\ streaming \in BOOLEAN
  /\ entry \in RegisterEntries => ~streaming
  /\ stage = IF entry = "updated.execute" /\ ~streaming THEN "direct"
             ELSE "primary"
  /\ pc = "idle"
  /\ workflow \in Workflows
  /\ directory \in Directories
     \* after construction: _discover_agents filled the cache from a listing
     \* (possibly an older one), or failed and left it empty
  /\ agentsCache \in {AgentMapping(d) : d \in Directories}
  /\ store \in {{}, {OldDef}}
  /\ honest = TRUE
  /\ posted = << >>
  /\ calls = << >>
  /\ regResult = "none"
  /\ history = << >>
  /\ execLog = << >>
  /\ result = JNull
  /\ finalResult = JNull
  /\ currentStep = JNull
  /\ stepOutput = << >>
  /\ linesRead = 0
  /\ respBody = JNull
  /\ shown = JNull
  /\ printed = << >>
  /\ buffer = << >>
  /\ unread = << >>
  /\ lastResp = NoResponse
  /\ linesSeen = << >>

\* A register entry may be called again on the same client; an execute entry
\* is followed through once.
CanStart ==
  \/ pc = "idle"
  \/ pc = "done" /\ entry \in RegisterEntries /\ Len(history) < MaxCalls

\* The operation returns r to its caller.
OpDone(r) == pc' = "done" /\ result' = r

\* Mutant of RegFinish: the caller goes on to execute whatever register
\* returned.
RegFinish_ExecuteAnyway(r) ==
  /\ regResult' = r
  /\ history' = Append(history, r)
  /\ IF entry \in RegisterEntries THEN pc' = "done" /\ UNCHANGED result
     ELSE /\ UNCHANGED result
          /\ pc' = CASE entry = "simple.execute" ->
                          IF streaming THEN "x_stream" ELSE "x_sync"
                     [] entry = "demo.run" ->
                          IF streaming THEN "e_stream" ELSE "e_sync"
                     [] OTHER ->
                          IF stage = "primary" THEN "u_stream" ELSE "x_sync"

\* A register call ends with outcome r; what the caller of register does next.
RegFinish(r) ==
  /\ regResult' = r
  /\ history' = Append(history, r)
  /\ IF entry \in RegisterEntries THEN pc' = "done" /\ UNCHANGED result
     ELSE IF r # "ok"
       THEN IF entry = "updated.execute" /\ stage = "primary"
              THEN pc' = "u_fb1" /\ UNCHANGED result
              ELSE OpDone(JNull)
       ELSE /\ UNCHANGED result
            /\ pc' = CASE entry = "simple.execute" ->
                            IF streaming THEN "x_stream" ELSE "x_sync"
                       [] entry = "demo.run" ->
                            IF streaming THEN "e_stream" ELSE "e_sync"
                       [] OTHER ->
                            IF stage = "primary" THEN "u_stream" ELSE "x_sync"

RegContinue(next) == pc' = next /\ UNCHANGED << regResult, history, result >>

\* ------------------------------------- SimpleWorkflowClient registration
\* _convert_workflow_to_api and what follows it up to the first request:
\* nothing is sent when an agent is missing.
SimpleConvertAndStart ==
  /\ calls' = << >>
  /\ execLog' = IF pc \in {"idle", "done"} THEN << >> ELSE execLog
  /\ IF ConvertOk(workflow, agentsCache)
       THEN /\ posted' = ConvertWorkflowToApi(workflow, agentsCache)
            /\ pc' = "s_post1"
            /\ regResult' = "pending"
            /\ UNCHANGED << history, result >>
       ELSE /\ posted' = << >>
            /\ regResult' = "unresolved"
            /\ history' = Append(history, "unresolved")
            /\ IF entry = "updated.execute" /\ pc = "idle" /\ stage = "primary"
                 THEN pc' = "u_fb1" /\ UNCHANGED result
                 ELSE OpDone(JNull)
  /\ UNCHANGED << workflow, store, honest, readerVars, fixedVars, obsVars, shown, printed, buffer, unread >>

\* SimpleWorkflowClient.execute_workflow (and the register-only use of its
\* two private steps) from the call to the first request.
SimpleExecuteWorkflow ==
  /\ CanStart
  /\ entry \in {"simple.register", "simple.execute"}
  /\ SimpleConvertAndStart
  /\ UNCHANGED stage

SimpleRegisterPost1 ==
  /\ pc = "s_post1"
  /\ \E st \in PostStatuses :
       /\ calls' = Append(calls, Call("POST", st))
       /\ store' = StoreAfterPost(store, st, posted)
       /\ honest' = (honest /\ st \in HonestPost(store))
       /\ CASE SimpleAfterFirstPost(st) = "ok" -> RegFinish("ok")
            [] SimpleAfterFirstPost(st) = "cleanup" -> RegContinue("s_delete")
            [] OTHER -> RegFinish("failed")
  /\ UNCHANGED << stage, workflow, posted, execLog, readerVars, fixedVars, obsVars, shown, printed, buffer, unread >>

SimpleRegisterDelete ==
  /\ pc = "s_delete"
  /\ \E st \in DeleteStatuses :
       /\ calls' = Append(calls, Call("DELETE", st))
       /\ store' = StoreAfterDelete(store, st)
       /\ honest' = (honest /\ st \in HonestDelete(store))
       /\ IF SimpleDeleteOk(st)
            THEN RegContinue("s_post2")
            ELSE RegFinish("failed")
  /\ UNCHANGED << stage, workflow, posted, execLog, readerVars, fixedVars, obsVars, shown, printed, buffer, unread >>

SimpleRegisterPost2 ==
  /\ pc = "s_post2"
  /\ \E st \in PostStatuses :
       /\ calls' = Append(calls, Call("POST", st))
       /\ store' = StoreAfterPost(store, st, posted)
       /\ honest' = (honest /\ st \in HonestPost(store))
       /\ RegFinish(IF st = 201 THEN "ok" ELSE "failed")
  /\ UNCHANGED << stage, workflow, posted, execLog, readerVars, fixedVars, obsVars, shown, printed, buffer, unread >>

\* ----------------------------------- SequentialWorkflowDemo registration
\* register_workflow_with_cleanup up to and including
\* update_workflow_with_agent_ids: one GET /agents, then the caller's dict
\* is rewritten in place.
DemoUpdateAgentIds ==
  /\ CanStart
  /\ entry \in {"demo.register", "demo.run"}
  /\ \E st \in AgentsStatuses :
       LET mapping == AgentMapping(ListAvailableAgents(st, directory))
           updated == UpdateWorkflowWithAgentIds(workflow, mapping)
       IN /\ calls' = << Call("GET_AGENTS", st) >>
          /\ workflow' = updated
          /\ posted' = updated
  /\ pc' = "d_post1"
  /\ regResult' = "pending"
  /\ execLog' = << >>
  /\ UNCHANGED << stage, store, honest, history, result, readerVars,
                  fixedVars, obsVars, shown, printed, buffer, unread >>

DemoRegister1 ==
  /\ pc = "d_post1"
  /\ \E st \in PostStatuses :
       /\ calls' = Append(calls, Call("POST", st))
       /\ store' = StoreAfterPost(store, st, posted)
       /\ honest' = (honest /\ st \in HonestPost(store))
       /\ RegContinue(IF RegisterWorkflow(st) THEN "d_verify1" ELSE "d_delete")
  /\ UNCHANGED << stage, workflow, posted, execLog, readerVars, fixedVars, obsVars, shown, printed, buffer, unread >>

DemoVerify1 ==
  /\ pc = "d_verify1"
  /\ \E st \in GetStatuses :
       /\ calls' = Append(calls, Call("GET", st))
       /\ honest' = (honest /\ st \in HonestGet(store))
       /\ IF VerifyWorkflowRegistration(st)
            THEN RegFinish("ok")
            ELSE RegContinue("d_delete")
  /\ UNCHANGED << stage, workflow, store, posted, execLog, readerVars,
                  fixedVars, obsVars, shown, printed, buffer, unread >>

DemoDelete ==
  /\ pc = "d_delete"
  /\ \E st \in DeleteStatuses :
       /\ calls' = Append(calls, Call("DELETE", st))
       /\ store' = StoreAfterDelete(store, st)
       /\ honest' = (honest /\ st \in HonestDelete(store))
       /\ IF DeleteWorkflow(st)
            THEN RegContinue("d_post2")
            ELSE RegFinish("failed")
  /\ UNCHANGED << stage, workflow, posted, execLog, readerVars, fixedVars, obsVars, shown, printed, buffer, unread >>

DemoRegister2 ==
  /\ pc = "d_post2"
  /\ \E st \in PostStatuses :
       /\ calls' = Append(calls, Call("POST", st))
       /\ store' = StoreAfterPost(store, st, posted)
       /\ honest' = (honest /\ st \in HonestPost(store))
       /\ IF RegisterWorkflow(st)
            THEN RegContinue("d_verify2")
            ELSE RegFinish("failed")
  /\ UNCHANGED << stage, workflow, posted, execLog, readerVars, fixedVars, obsVars, shown, printed, buffer, unread >>

DemoVerify2 ==
  /\ pc = "d_verify2"
  /\ \E st \in GetStatuses :
       /\ calls' = Append(calls, Call("GET", st))
       /\ honest' = (honest /\ st \in HonestGet(store))
       /\ RegFinish(IF VerifyWorkflowRegistration(st) THEN "ok" ELSE "failed")
  /\ UNCHANGED << stage, workflow, store, posted, execLog, readerVars,
                  fixedVars, obsVars, shown, printed, buffer, unread >>


\* ------------------------------------------ SimpleWorkflowClient execute
ReaderNow == Reader(finalResult, currentStep, stepOutput)

SetReader(r) ==
  /\ finalResult' = r.final
  /\ currentStep' = r.step
  /\ stepOutput' = r.out

OpenReader == SetReader(FreshReader) /\ linesRead' = 0

\* What the caller of client.execute_workflow(streaming=False) does with r:
\* execute_workflow's own caller gets it as it is; the updated demo shows it
\* (line 158, which may raise into the except branch) or, in the except
\* branch, returns it only when it is truthy and showing it does not raise.
\* Called with streaming=False the updated demo shows a truthy r outside any
\* try (lines 134-139): what the display raises leaves the wrapper (pc
\* "raised").
SyncReturn(r) ==
  CASE entry = "simple.execute" -> OpDone(r)
    [] entry = "updated.execute" /\ stage = "direct" ->
         IF Truthy(r) /\ DisplayRaises(r)
           THEN pc' = "raised" /\ UNCHANGED result
           ELSE OpDone(r)
    [] entry = "updated.execute" /\ stage = "fallback1" ->
         IF Truthy(r) /\ DisplayRaises(r)
           THEN pc' = "u_fb2" /\ UNCHANGED result
           ELSE OpDone(r)
    [] OTHER -> OpDone(IF Truthy(r) /\ ~DisplayRaises(r) THEN r ELSE JNull)

\* _execute_sync: one POST .../execute.
SimpleExecuteSyncStep ==
  /\ pc = "x_sync"
  /\ \E st \in ExecStatuses, body \in FlowBodies :
       /\ SyncReturn(SimpleExecuteSync(st, body))
       /\ lastResp' = Response(st, "", body)
  /\ execLog' = Append(execLog, "sync")
  /\ UNCHANGED << stage, workflow, regVars, readerVars, fixedVars, linesSeen, shown, printed, buffer, unread >>

\* _execute_streaming: the POST.  There is no content-type test: every 200
\* body is read line by line (a body that is one JSON document is a line of
\* kind "other").
SimpleExecuteStreaming ==
  /\ pc = "x_stream"
  /\ execLog' = Append(execLog, "stream")
  /\ \E st \in ExecStatuses :
       /\ IF st = 200
            THEN pc' = "x_lines" /\ UNCHANGED result
            ELSE OpDone(JNull)
       /\ lastResp' = Response(st, "", Unread)
  /\ OpenReader
  /\ UNCHANGED << stage, workflow, regVars, fixedVars, linesSeen, shown, printed, buffer, unread >>

SimpleStreamLine ==
  /\ pc = "x_lines"
  /\ linesRead < MaxLines
  /\ \E line \in Lines :
       /\ SetReader(LastDictOnLine(line, ReaderNow))
  /\ linesRead' = linesRead + 1
  /\ UNCHANGED << stage, pc, workflow, regVars, execLog, result, fixedVars, obsVars, shown, printed, buffer, unread >>

\* The body ends, or reading it raises: the except returns None.
SimpleStreamClose ==
  /\ pc = "x_lines"
  /\ \E how \in {"eof", "error"} :
       /\ OpDone(IF how = "eof" THEN finalResult ELSE JNull)
       /\ lastResp' = ReadEnded(how, lastResp)
  /\ UNCHANGED << stage, workflow, regVars, execLog, readerVars, fixedVars,
                  linesSeen, shown, printed, buffer, unread >>

\* ---------------------------------------- SequentialWorkflowDemo execute
\* execute_workflow: one POST .../execute and the reshaping of its body; the
\* caller, run_automated_demo, displays a truthy result.
DemoExecuteSyncStep ==
  /\ pc = "e_sync"
  /\ \E st \in ExecStatuses, body \in FlowBodies :
       LET r == DemoExecuteWorkflow(st, body)
       IN /\ OpDone(r)
          /\ printed' = printed
          /\ UNCHANGED << buffer, unread >>
          /\ shown' = IF Truthy(r) THEN DisplayStepResults(r) ELSE JNull
          /\ lastResp' = Response(st, "", body)
  /\ execLog' = Append(execLog, "sync")
  /\ UNCHANGED << stage, workflow, regVars, readerVars, fixedVars, linesSeen >>

\* 'application/json' in content_type and not 'stream' in content_type
DemoIsPlainJson(ct) == ct = "application/json"

\* What the generator returns: final_result, or the stand-in when it is None.
DemoStreamingReturn(final) ==
  IF final = JNull THEN DemoInferredResult ELSE final

\* execute_workflow_streaming: the POST.  finalResult is the generator's
\* return value once pc is "done"; result is what run_automated_demo's
\* for-loop is left with (it never sees the generator's return value).
DemoExecuteStreaming ==
  /\ pc = "e_stream"
  /\ execLog' = Append(execLog, "stream")
  /\ \E st \in ExecStatuses, ct \in ContentTypes, body \in StreamBodies :
       IF st # 200
         THEN /\ OpDone(JNull) /\ OpenReader
              /\ lastResp' = Response(st, ct, Unread)
       ELSE IF DemoIsPlainJson(ct)
         THEN /\ OpDone(JNull)
              /\ SetReader(Reader(IF JsonRaises(body) THEN JNull
                                  ELSE DemoStreamingReturn(body),
                                  JNull, << >>))
              /\ linesRead' = 0
              /\ lastResp' = Response(st, ct, body)
       ELSE /\ pc' = "e_lines" /\ result' = JNull /\ OpenReader
            /\ lastResp' = Response(st, ct, Unread)
  /\ UNCHANGED << stage, workflow, regVars, fixedVars, linesSeen, shown, printed, buffer, unread >>

DemoStreamLine ==
  /\ pc = "e_lines"
  /\ linesRead < MaxLines
  /\ \E line \in Lines :
       /\ SetReader(LastDictOnLine(line, ReaderNow))
       /\ result' = IF line.kind = "data" /\ line.json.k # "str"
                      THEN line.json ELSE result
  /\ linesRead' = linesRead + 1
  /\ UNCHANGED << stage, pc, workflow, regVars, execLog, fixedVars, obsVars, shown, printed, buffer, unread >>

\* run_automated_demo's streaming summary: on a truthy result it calls
\* result.get(...), which raises AttributeError when the result is no dict,
\* and formats total_execution_time_ms with :.2f, which raises on a value
\* that is no number.
DemoSummaryRaises(r) ==
  /\ Truthy(r)
  /\ \/ ~IsDict(r)
     \/ ObjGet(r, "total_execution_time_ms", JNum(0)).k \notin {"num", "bool"}

\* The body ends (a read error is caught inside the parser and ends it too)
\* and run_automated_demo goes on with what its for-loop left in result: the
\* streaming summary, which may raise out of run_automated_demo (pc
\* "raised"), then, for a truthy result, log_workflow_results and
\* display_workflow_result as in the synchronous run.
DemoStreamClose ==
  /\ pc = "e_lines"
  /\ finalResult' = DemoStreamingReturn(finalResult)
  /\ IF DemoSummaryRaises(result)
       THEN pc' = "raised" /\ UNCHANGED shown
       ELSE /\ pc' = "done"
            /\ shown' = IF Truthy(result) THEN DisplayStepResults(result)
                         ELSE JNull
  /\ UNCHANGED << stage, workflow, regVars, execLog, result, currentStep,
                  stepOutput, linesRead, fixedVars, obsVars, printed, buffer,
                  unread >>

\* --------------------------------- UpdatedSequentialWorkflowDemo execute
\* _execute_workflow_with_enhanced_output(streaming=True) up to the first
\* request of _execute_with_enhanced_streaming.
UpdatedExecute ==
  /\ pc = "idle"
  /\ entry = "updated.execute"
  /\ SimpleConvertAndStart
  /\ UNCHANGED stage

\* _stream_workflow_execution returned r; lines 150-162 of the caller.
UpdatedStreamReturn(r) ==
  IF r = JNull THEN pc' = "u_fb1" /\ UNCHANGED result
  ELSE IF Truthy(r) /\ DisplayRaises(r)
    THEN pc' = "u_fb2" /\ UNCHANGED result
    ELSE OpDone(r)

\* Mutant of UpdatedIsSse: every type but application/json read as a stream.
UpdatedIsSse_NotJson(ct) == ct # "application/json"

\* is_sse = 'text/event-stream' in content_type
UpdatedIsSse(ct) == ct = "text/event-stream"

\* _stream_workflow_execution: the streaming POST.  When the body is read as
\* one JSON document, finalResult is what the method returns (final_result,
\* or None when the branch raised).
UpdatedStreamPost ==
  /\ pc = "u_stream"
  /\ execLog' = Append(execLog, "stream")
  /\ \E st \in ExecStatuses, ct \in ContentTypes, body \in StreamBodies :
       IF st # 200
         THEN /\ UpdatedStreamReturn(JNull)
              /\ OpenReader
              /\ lastResp' = Response(st, ct, Unread)
       ELSE IF ~UpdatedIsSse(ct)
         THEN /\ UpdatedStreamReturn(UpdatedJsonBody(body))
              /\ SetReader(Reader(UpdatedJsonBody(body), JNull, << >>))
              /\ linesRead' = 0
              /\ lastResp' = Response(st, ct, body)
         ELSE /\ pc' = "u_lines" /\ UNCHANGED result
              /\ OpenReader
              /\ lastResp' = Response(st, ct, Unread)
  /\ UNCHANGED << stage, workflow, regVars, fixedVars, linesSeen, shown, printed, buffer, unread >>

UpdatedStreamLine ==
  /\ pc = "u_lines"
  /\ linesRead < MaxLines
  /\ \E line \in Lines :
       IF UpdatedLineRaises(line)
         THEN /\ UpdatedStreamReturn(JNull)
              /\ UNCHANGED << finalResult, currentStep, stepOutput >>
         ELSE /\ SetReader(UpdatedOnLine(line, ReaderNow))
                     /\ UNCHANGED << pc, result >>
  /\ linesRead' = linesRead + 1
  /\ UNCHANGED << stage, workflow, regVars, execLog, fixedVars, obsVars, shown, printed, buffer, unread >>

\* The body ends, or reading it raises (the method's except returns None).
UpdatedStreamClose ==
  /\ pc = "u_lines"
  /\ \E how \in {"eof", "error"} :
       /\ IF how = "error" THEN UpdatedStreamReturn(JNull)
          ELSE IF finalResult # JNull THEN UpdatedStreamReturn(finalResult)
          ELSE pc' = "u_status" /\ UNCHANGED result
       /\ lastResp' = ReadEnded(how, lastResp)
  /\ UNCHANGED << stage, workflow, regVars, execLog, readerVars, fixedVars,
                  linesSeen, shown, printed, buffer, unread >>

\* Mutant of UpdatedStatusGet: the status GET is sent while the streamed body
\* is still being read.
UpdatedStatusGet_WhileReading ==
  /\ pc = "u_lines"
  /\ execLog' = Append(execLog, "status")
  /\ \E st \in ExecStatuses, body \in StatusBodies :
       lastResp' = Response(st, "", body)
  /\ UNCHANGED << stage, pc, result, workflow, regVars, readerVars, fixedVars,
                  linesSeen, shown, printed, buffer, unread >>

\* final_result is None after the stream: GET .../status.
UpdatedStatusGet ==
  /\ pc = "u_status"
  /\ execLog' = Append(execLog, "status")
  /\ \E st \in ExecStatuses, body \in StatusBodies :
       /\ IF UpdatedStatusRaises(st, body) THEN UpdatedStreamReturn(JNull)
          ELSE IF UpdatedStatusResult(st, body) # JNull
            THEN UpdatedStreamReturn(UpdatedStatusResult(st, body))
            ELSE pc' = "u_sync" /\ UNCHANGED result
       /\ lastResp' = Response(st, "", body)
  /\ UNCHANGED << stage, workflow, regVars, readerVars, fixedVars, linesSeen, shown, printed, buffer, unread >>

\* Still None: the non-streaming POST inside _stream_workflow_execution.
UpdatedFallbackPost ==
  /\ pc = "u_sync"
  /\ execLog' = Append(execLog, "sync")
  /\ \E st \in ExecStatuses, body \in FlowBodies :
       /\ UpdatedStreamReturn(UpdatedFallbackSync(st, body))
       /\ lastResp' = Response(st, "", body)
  /\ UNCHANGED << stage, workflow, regVars, readerVars, fixedVars, linesSeen, shown, printed, buffer, unread >>

\* Line 152: result is None, client.execute_workflow(workflow, streaming=False).
UpdatedFallback1 ==
  /\ pc = "u_fb1"
  /\ stage' = "fallback1"
  /\ SimpleConvertAndStart

\* Line 172, in the except branch: client.execute_workflow(..., streaming=False).
UpdatedFallback2 ==
  /\ pc = "u_fb2"
  /\ stage' = "fallback2"
  /\ SimpleConvertAndStart

Next ==
  \/ SimpleExecuteWorkflow
  \/ SimpleRegisterPost1
  \/ SimpleRegisterDelete
  \/ SimpleRegisterPost2
  \/ DemoUpdateAgentIds
  \/ DemoRegister1
  \/ DemoVerify1
  \/ DemoDelete
  \/ DemoRegister2
  \/ DemoVerify2
  \/ SimpleExecuteSyncStep
  \/ SimpleExecuteStreaming
  \/ SimpleStreamLine
  \/ SimpleStreamClose
  \/ DemoExecuteSyncStep
  \/ DemoExecuteStreaming
  \/ DemoStreamLine
  \/ DemoStreamClose
  \/ UpdatedExecute
  \/ UpdatedStreamPost
  \/ UpdatedStreamLine
  \/ UpdatedStreamClose
  \/ UpdatedStatusGet
  \/ UpdatedFallbackPost
  \/ UpdatedFallback1
  \/ UpdatedFallback2

Spec == Init /\ [][Next]_vars

\* --------------------------------------- the result handlers on their own
\* Every shape of 200 body is put through each of the functions that turn
\* an execute response into the value handed to the caller.
Absent == [k |-> "absent"]

RECURSIVE ObjOf(_)
\* The dict with the given << key, value >> pairs in order, Absent skipped.
ObjOf(pairs) ==
  IF pairs = << >> THEN EmptyObj
  ELSE LET n    == Len(pairs)
           rest == ObjOf(SubSeq(pairs, 1, n - 1))
       IN IF pairs[n][2] = Absent THEN rest
          ELSE ObjPut(rest, pairs[n][1], pairs[n][2])

\* Step collections a server may put under a step key: a mapping keyed by
\* step_id (tagged with the key it is stored under), an empty mapping, a list.
StepValues(key) ==
  { Absent, EmptyObj,
    JObj(<< "s1" >>, [x \in {"s1"} |-> ObjPut(StepOk, "from", JStr(key))]),
    JList(<< ObjPut(StepOk, "step_id", JStr("s1")) >>) }

SuccessValues == { Absent, JBool(TRUE), JBool(FALSE), JStr("yes") }

DictBodies ==
  { ObjOf(<< << "success", su >>, << "workflow_id", wid >>,
             << "total_execution_time_ms", tm >>,
             << "results", v4 >>, << "executed_steps", v3 >>,
             << "steps", v2 >>, << "step_results", v1 >> >>) :
      su \in SuccessValues,
      wid \in {Absent, JStr("srv-w1")},
      tm \in {Absent, JNum(42)},
      v1 \in StepValues("step_results"), v2 \in StepValues("steps"),
      v3 \in StepValues("executed_steps"), v4 \in StepValues("results") }

Wrap(v) == JObj(<< "data" >>, [x \in {"data"} |-> v])

OddBodies ==
  { JNull, JNum(1), JStr("done"), JList(<< >>), JList(<< JNum(1) >>),
    NotJson, EmptyBody }

NormBodies ==
  DictBodies \cup {Wrap(b) : b \in DictBodies}
             \cup OddBodies \cup {Wrap(b) : b \in OddBodies \ {NotJson, EmptyBody}}

Handlers ==
  {"demo.sync", "simple.sync", "updated.json", "updated.sync", "demo.stream",
   "demo.display"}

NormInit ==
  /\ entry \in Handlers
  /\ respBody \in NormBodies
  /\ pc = "n_in"
  /\ streaming = (entry \in {"updated.json", "demo.stream"})
  /\ stage = "primary"
  /\ workflow = << >>
  /\ directory = EmptyMap
  /\ agentsCache = EmptyMap
  /\ store = {}
  /\ honest = TRUE
  /\ posted = << >>
  /\ calls = << >>
  /\ regResult = "ok"
  /\ history = << >>
  /\ execLog = << >>
  /\ result = JNull
  /\ finalResult = JNull
  /\ currentStep = JNull
  /\ stepOutput = << >>
  /\ linesRead = 0
  /\ shown = JNull
  /\ printed = << >>
  /\ buffer = << >>
  /\ unread = << >>
  /\ lastResp = NoResponse
  /\ linesSeen = << >>

Handled(r) ==
  /\ pc = "n_in"
  /\ pc' = "n_out"
  /\ result' = r
  /\ UNCHANGED << stage, workflow, regVars, execLog, readerVars, fixedVars, obsVars,
                  shown, printed, buffer, unread >>

NormDemoSync      == entry = "demo.sync" /\ Handled(DemoExecuteWorkflow(200, respBody))

\* run_automated_demo without streaming: execute_workflow, then, for a truthy
\* result, display_workflow_result.
NormDemoDisplay ==
  /\ entry = "demo.display"
  /\ pc = "n_in"
  /\ pc' = "n_out"
  /\ LET r == DemoExecuteWorkflow(200, respBody)
     IN /\ result' = r
        /\ printed' = printed
        /\ UNCHANGED << buffer, unread >>
        /\ shown' = IF Truthy(r) THEN DisplayStepResults(r) ELSE JNull
  /\ UNCHANGED << stage, workflow, regVars, execLog, readerVars, fixedVars, obsVars >>

NormSimpleSync    == entry = "simple.sync" /\ Handled(SimpleExecuteSync(200, respBody))
NormUpdatedJson   == entry = "updated.json" /\ Handled(UpdatedJsonBody(respBody))
NormUpdatedSync   == entry = "updated.sync" /\ Handled(UpdatedFallbackSync(200, respBody))
NormDemoStreaming ==
  /\ entry = "demo.stream"
  /\ Handled(IF JsonRaises(respBody) THEN JNull ELSE DemoStreamingReturn(respBody))

NormNext ==
  \/ NormDemoSync
  \/ NormDemoDisplay
  \/ NormSimpleSync
  \/ NormUpdatedJson
  \/ NormUpdatedSync
  \/ NormDemoStreaming

SpecNorm == NormInit /\ [][NormNext]_vars

\* ----------------------------- one outcome through both execute strategies
\* The server holds one outcome of a workflow run and delivers it twice: as
\* the body of the synchronous execute response, and at the end of the event
\* stream of the streaming execute response.
FinalOutputValues == { Absent, JStr("text") }

Outcomes ==
  { ObjOf(<< << "success", su >>, << "step_results", v1 >>, << "steps", v2 >>,
             << "final_output", fo >> >>) :
      su \in {JBool(TRUE), JBool(FALSE)},
      v1 \in {Absent, StepsMap}, v2 \in {Absent, StepsMap},
      fo \in FinalOutputValues }

\* The last line of the stream, carrying the outcome: inside a
\* workflow_complete event, or as a result object of its own.
TerminalForms == {"workflow_complete", "object"}

TerminalLine(form, o) ==
  IF form = "workflow_complete"
    THEN DataJson(ObjPut(Event("workflow_complete"), "result", o))
    ELSE DataJson(o)

\* What may precede it: nothing, or one step with a token.
StreamPrefixes ==
  { << >>,
    << DataJson(ObjPut(Event("step_start"), "step_name", JStr("S1"))),
       DataJson(ObjPut(Event("token"), "token", JStr("a"))),
       DataJson(ObjPut(Event("step_complete"), "success", SuccessTrue)) >> }

PairEntries == {"simple.pair", "demo.pair", "updated.pair"}

PairInit ==
  /\ entry \in PairEntries
  /\ respBody \in Outcomes
  /\ pc = "p_in"
  /\ streaming = FALSE
  /\ stage = "primary"
  /\ workflow = << >>
  /\ directory = EmptyMap
  /\ agentsCache = EmptyMap
  /\ store = {}
  /\ honest = TRUE
  /\ posted = << >>
  /\ calls = << >>
  /\ regResult = "ok"
  /\ history = << >>
  /\ execLog = << >>
  /\ result = JNull
  /\ finalResult = JNull
  /\ currentStep = JNull
  /\ stepOutput = << >>
  /\ linesRead = 0
  /\ shown = JNull
  /\ printed = << >>
  /\ buffer = << >>
  /\ unread = << >>
  /\ lastResp = NoResponse
  /\ linesSeen = << >>

\* The synchronous strategy on the outcome, bare or wrapped in 'data'.
PairSync ==
  /\ pc = "p_in"
  /\ pc' = "p_mid"
  /\ \E wrapped \in BOOLEAN :
       LET body == IF wrapped THEN Wrap(respBody) ELSE respBody
       IN /\ result' = IF entry = "demo.pair"
                         THEN DemoExecuteWorkflow(200, body)
                         ELSE SimpleExecuteSync(200, body)
          /\ lastResp' = Response(200, "", body)
  /\ execLog' = Append(execLog, "sync")
  /\ UNCHANGED << stage, workflow, regVars, readerVars, fixedVars, shown, printed, buffer, unread,
                  linesSeen >>

\* The streaming strategy on the same outcome, request by request and line
\* by line; finalResult is the strategy's final_result and, once pc is
\* "p_out", what it returns.  The streaming POST is answered 200 with a body
\* whose last line carries the outcome; unread holds the lines to come.
PairStreamPost ==
  /\ pc = "p_mid"
  /\ pc' = "p_lines"
  /\ execLog' = Append(execLog, "stream")
  /\ \E form \in TerminalForms, prefix \in StreamPrefixes :
       unread' = Append(prefix, TerminalLine(form, respBody))
  /\ lastResp' = Response(200, IF entry = "simple.pair" THEN ""
                                ELSE "text/event-stream", Unread)
  /\ OpenReader
  /\ UNCHANGED << stage, workflow, regVars, result, fixedVars, shown, printed,
                  buffer, linesSeen >>

\* The strategy's loop handles the next line.
PairStreamLine ==
  /\ pc = "p_lines"
  /\ unread # << >>
  /\ ~UpdatedLineRaises(Head(unread))
  /\ SetReader(IF entry = "updated.pair"
                 THEN UpdatedOnLine(Head(unread), ReaderNow)
                 ELSE LastDictOnLine(Head(unread), ReaderNow))
  /\ linesSeen' = Append(linesSeen, Head(unread))
  /\ linesRead' = linesRead + 1
  /\ unread' = Tail(unread)
  /\ UNCHANGED << stage, pc, workflow, regVars, execLog, result, fixedVars,
                  shown, printed, buffer, lastResp >>

\* The body ends.  The simple client returns final_result, the demo's
\* generator the stand-in when it is None; the updated demo, left without a
\* result, goes on to the status GET.
PairStreamClose ==
  /\ pc = "p_lines"
  /\ unread = << >>
  /\ pc' = IF entry = "updated.pair" /\ finalResult = JNull
             THEN "p_status" ELSE "p_out"
  /\ finalResult' = IF entry = "demo.pair"
                      THEN DemoStreamingReturn(finalResult) ELSE finalResult
  /\ UNCHANGED << stage, workflow, regVars, execLog, result, currentStep,
                  stepOutput, linesRead, fixedVars, shown, printed, buffer,
                  unread, obsVars >>

\* _stream_workflow_execution's GET .../status, answered 200 with the outcome
\* reported as completed, or 500.
PairStatusGet ==
  /\ pc = "p_status"
  /\ execLog' = Append(execLog, "status")
  /\ \E st \in {200, 500} :
       LET body == JObj(<< "status", "result" >>,
                        [x \in {"status", "result"} |->
                           IF x = "status" THEN JStr("completed") ELSE respBody])
       IN /\ lastResp' = Response(st, "", body)
          /\ IF UpdatedStatusRaises(st, body)
               THEN pc' = "p_out" /\ UNCHANGED finalResult
               ELSE /\ finalResult' = UpdatedStatusResult(st, body)
                    /\ pc' = IF UpdatedStatusResult(st, body) # JNull
                               THEN "p_out" ELSE "p_sync"
  /\ UNCHANGED << stage, workflow, regVars, result, currentStep, stepOutput,
                  linesRead, fixedVars, shown, printed, buffer, unread,
                  linesSeen >>

\* Still None: the synchronous POST inside _stream_workflow_execution,
\* answered 200 with the outcome.
PairFallbackPost ==
  /\ pc = "p_sync"
  /\ pc' = "p_out"
  /\ execLog' = Append(execLog, "sync")
  /\ lastResp' = Response(200, "", respBody)
  /\ finalResult' = UpdatedFallbackSync(200, respBody)
  /\ UNCHANGED << stage, workflow, regVars, result, currentStep, stepOutput,
                  linesRead, fixedVars, shown, printed, buffer, unread,
                  linesSeen >>

PairNext ==
  \/ PairSync
  \/ PairStreamPost
  \/ PairStreamLine
  \/ PairStreamClose
  \/ PairStatusGet
  \/ PairFallbackPost

SpecPair == PairInit /\ [][PairNext]_vars

\* ------------------------------------------- the stream reader on its own
\* _stream_workflow_execution's line loop on a 200 event stream, one line
\* per step, with the lines it has handled kept in linesSeen.
TokenLine(t) == DataJson(ObjPut(Event("token"), "token", t))

ReaderLines ==
  { DataJson(ObjPut(Event("step_start"), "step_name", JStr("S1"))),
    TokenLine(JStr("a")), TokenLine(JStr("b")), TokenLine(JStr("c")),
    TokenLine(JNum(1)),
    DataJson(ObjPut(Event("llm_output"), "content", JStr("d"))),
    DataJson(ObjPut(Event("step_complete"), "success", SuccessTrue)),
    DataJson(ObjPut(Event("workflow_complete"), "result", BodyOk)),
    DataJson(ObjPut(EmptyObj, "final_output", JStr("G"))),
    DataJson(ObjPut(Event("error"), "message", JStr("m"))),
    DataText("x"),
    PlainLine("other") }

ReaderInit ==
  /\ entry = "updated.reader"
  /\ pc = "r_lines"
  /\ streaming = TRUE
  /\ stage = "primary"
  /\ workflow = << >>
  /\ directory = EmptyMap
  /\ agentsCache = EmptyMap
  /\ store = {}
  /\ honest = TRUE
  /\ posted = << >>
  /\ calls = << >>
  /\ regResult = "ok"
  /\ history = << >>
  /\ execLog = << "stream" >>
  /\ result = JNull
  /\ finalResult = JNull
  /\ currentStep = JNull
  /\ stepOutput = << >>
  /\ linesRead = 0
  /\ respBody = JNull
  /\ shown = JNull
  /\ printed = << >>
  /\ buffer = << >>
  /\ unread = << >>
  /\ lastResp = Response(200, "text/event-stream", Unread)
  /\ linesSeen = << >>

\* One more line of the body is handled.
ReaderLine ==
  /\ pc = "r_lines"
  /\ linesRead < MaxStreamLines
  /\ \E line \in ReaderLines :
       /\ ~UpdatedLineRaises(line)
       /\ SetReader(UpdatedOnLine(line, ReaderNow))
       /\ linesSeen' = Append(linesSeen, line)
  /\ linesRead' = linesRead + 1
  /\ UNCHANGED << stage, pc, workflow, regVars, execLog, result, fixedVars,
                  shown, printed, buffer, unread, lastResp >>

\* A line whose handling raises: the method's except returns None.
ReaderRaise ==
  /\ pc = "r_lines"
  /\ linesRead < MaxStreamLines
  /\ \E line \in ReaderLines :
       /\ UpdatedLineRaises(line)
       /\ linesSeen' = Append(linesSeen, line)
  /\ pc' = "r_raised"
  /\ linesRead' = linesRead + 1
  /\ UNCHANGED << stage, workflow, regVars, execLog, result, finalResult,
                  currentStep, stepOutput, fixedVars, shown, printed, buffer, unread, lastResp >>

\* The body ends.
ReaderClose ==
  /\ pc = "r_lines"
  /\ pc' = "r_closed"
  /\ UNCHANGED << stage, workflow, regVars, execLog, result, readerVars,
                  fixedVars, shown, printed, buffer, unread, obsVars >>

ReaderNext ==
  \/ ReaderLine
  \/ ReaderRaise
  \/ ReaderClose

SpecStream == ReaderInit /\ [][ReaderNext]_vars

\* ------------------------------------------------ the agent directory cache
\* SimpleWorkflowClient._discover_agents called repeatedly on one client, the
\* server's listing being whatever it is at each fetch.
MaxFetches == 3

\* Mutant of DiscoverAgents: the fetched pairs are merged into the cache.
DiscoverAgents_Merge(st, listing, cache) ==
  IF st = 200
    THEN [n \in DOMAIN cache \cup DOMAIN AgentMapping(listing) |->
            IF n \in DOMAIN AgentMapping(listing)
              THEN AgentMapping(listing)[n] ELSE cache[n]]
    ELSE cache

\* _discover_agents: the cache after a fetch answered st with the listing.
DiscoverAgents(st, listing, cache) ==
  IF st = 200 THEN AgentMapping(listing) ELSE cache

\* _discover_agents: its return value.
DiscoverReturns(st, listing) ==
  JBool(st = 200 /\ DOMAIN AgentMapping(listing) # {})

Fetch(st, listing) == [m |-> "GET", st |-> st, listing |-> listing]

DiscoverInit ==
  /\ entry = "simple.discover"
  /\ pc = "c_ready"
  /\ streaming = FALSE
  /\ stage = "primary"
  /\ workflow = << >>
  /\ directory \in Directories
  /\ agentsCache = EmptyMap
  /\ store = {}
  /\ honest = TRUE
  /\ posted = << >>
  /\ calls = << >>
  /\ regResult = "none"
  /\ history = << >>
  /\ execLog = << >>
  /\ result = JNull
  /\ finalResult = JNull
  /\ currentStep = JNull
  /\ stepOutput = << >>
  /\ linesRead = 0
  /\ respBody = JNull
  /\ shown = JNull
  /\ printed = << >>
  /\ buffer = << >>
  /\ unread = << >>
  /\ lastResp = NoResponse
  /\ linesSeen = << >>

\* One call of _discover_agents.
DiscoverFetch ==
  /\ pc = "c_ready"
  /\ Len(calls) < MaxFetches
  /\ \E st \in AgentsStatuses :
       /\ agentsCache' = DiscoverAgents(st, directory, agentsCache)
       /\ result' = DiscoverReturns(st, directory)
       /\ calls' = Append(calls, Fetch(st, directory))
  /\ UNCHANGED << entry, streaming, stage, pc, workflow, directory, store,
                  honest, posted, regResult, history, execLog, readerVars,
                  respBody, shown, printed, buffer, unread, obsVars >>

\* Agents are created or deleted on the server between two fetches.
DirectoryChanges ==
  /\ pc = "c_ready"
  /\ Len(calls) < MaxFetches
  /\ \E d \in Directories \ {directory} : directory' = d
  /\ UNCHANGED << entry, streaming, stage, pc, workflow, agentsCache, regVars,
                  execLog, result, readerVars, respBody, shown, printed, buffer, unread,
                  obsVars >>

DiscoverNext ==
  \/ DiscoverFetch
  \/ DirectoryChanges

SpecDiscover == DiscoverInit /\ [][DiscoverNext]_vars

\* ------------------------------------------- lines put together from chunks
\* The three stream parsers (_parse_streaming_response,
\* _parse_workflow_streaming_response, the updated demo's loop) share one
\* way of making lines: buffer += chunk; while '\n' in buffer: line, buffer =
\* buffer.split('\n', 1); line = line.strip(); an empty line is passed over.
\* A body is a sequence of characters: "d" any character that is no white
\* space, " " a space, "\n" the newline.
MaxBody == 6

Chars == {"d", " ", "\n"}

ChunkEntries == {"simple.parse", "demo.parse", "updated.parse"}

RECURSIVE SeqsUpTo(_)
\* The bodies of at most n characters.
SeqsUpTo(n) ==
  IF n = 0 THEN { << >> }
  ELSE SeqsUpTo(n - 1) \cup
         {Append(s, c) : s \in {t \in SeqsUpTo(n - 1) : Len(t) = n - 1}, c \in Chars}

RECURSIVE LStrip(_)
LStrip(s) == IF s # << >> /\ Head(s) = " " THEN LStrip(Tail(s)) ELSE s

RECURSIVE RStrip(_)
RStrip(s) ==
  IF s # << >> /\ s[Len(s)] = " " THEN RStrip(SubSeq(s, 1, Len(s) - 1)) ELSE s

\* line.strip()
Strip(s) == RStrip(LStrip(s))

HasNewline(s) == \E i \in 1..Len(s) : s[i] = "\n"

FirstNewline(s) ==
  CHOOSE i \in 1..Len(s) : s[i] = "\n" /\ \A j \in 1..(i - 1) : s[j] # "\n"

RECURSIVE SplitLines(_)
\* while '\n' in buffer: ...: the lines passed on, stripped, the empty ones
\* left out, and what stays in the buffer.
SplitLines(buf) ==
  IF ~HasNewline(buf) THEN [lines |-> << >>, rest |-> buf]
  ELSE LET i    == FirstNewline(buf)
           line == Strip(SubSeq(buf, 1, i - 1))
           more == SplitLines(SubSeq(buf, i + 1, Len(buf)))
       IN [lines |-> (IF line = << >> THEN << >> ELSE << line >>) \o more.lines,
           rest  |-> more.rest]

\* Mutant of FeedChunk: the chunk replaces the buffer.
FeedChunk_NoCarry(buf, chunk) == SplitLines(chunk)

\* buffer += chunk, then the while loop.
FeedChunk(buf, chunk) == SplitLines(buf \o chunk)

ChunkInit ==
  /\ entry \in ChunkEntries
  /\ pc = "k_read"
  /\ streaming = TRUE
  /\ stage = "primary"
  /\ workflow = << >>
  /\ directory = EmptyMap
  /\ agentsCache = EmptyMap
  /\ store = {}
  /\ honest = TRUE
  /\ posted = << >>
  /\ calls = << >>
  /\ regResult = "ok"
  /\ history = << >>
  /\ execLog = << "stream" >>
  /\ result = JNull
  /\ finalResult = JNull
  /\ currentStep = JNull
  /\ stepOutput = << >>
  /\ linesRead = 0
  /\ respBody \in SeqsUpTo(MaxBody)
  /\ shown = JNull
  /\ printed = << >>
  /\ buffer = << >>
  /\ unread = respBody
  /\ lastResp = Response(200, "text/event-stream", Unread)
  /\ linesSeen = << >>

\* iter_content hands over the next chunk, of any size from one character to
\* all that is left, and the loop body runs on it.
ChunkRead ==
  /\ pc = "k_read"
  /\ unread # << >>
  /\ \E n \in 1..Len(unread) :
       LET fed == FeedChunk(buffer, SubSeq(unread, 1, n))
       IN /\ linesSeen' = linesSeen \o fed.lines
          /\ buffer' = fed.rest
          /\ unread' = SubSeq(unread, n + 1, Len(unread))
  /\ UNCHANGED << stage, pc, workflow, regVars, execLog, result, readerVars,
                  fixedVars, shown, printed, lastResp >>

\* The body is exhausted: the for loop ends; what is left in the buffer is
\* not looked at.
ChunkClose ==
  /\ pc = "k_read"
  /\ unread = << >>
  /\ pc' = "k_closed"
  /\ UNCHANGED << stage, workflow, regVars, execLog, result, readerVars,
                  fixedVars, shown, printed, buffer, unread, obsVars >>

ChunkNext ==
  \/ ChunkRead
  \/ ChunkClose

SpecChunk == ChunkInit /\ [][ChunkNext]_vars

\* ------------------------------------- what the stream consumers write out
\* Two consumers of a streamed body, each with the text it writes to the
\* output as it handles a line: the updated demo's reading loop and the
\* simple client's _parse_streaming_response + _execute_streaming.
MaxEmitLines == 4

EmitEntries == {"updated.lines", "simple.lines"}

EmitLines ==
  { DataJson(ObjPut(Event("step_start"), "step_name", JStr("S1"))),
    TokenLine(JStr("a")), TokenLine(JStr("b")),
    DataJson(ObjPut(Event("step_complete"), "success", SuccessTrue)),
    DataJson(ObjPut(Event("workflow_complete"), "result", BodyOk)),
    DataText("x"), DataText(""),
    PlainLine("done") }

\* The updated demo's loop: print(token, end='', flush=True) for a truthy
\* token/output payload, print(data_content, ...) for a payload that is no
\* JSON, not empty and not [DONE], print(line, ...) for a line that is
\* neither data:, event: nor a comment (the line is stood for by its kind).
UpdatedEmits(line) ==
  CASE line.kind = "data" ->
         IF /\ IsDict(line.json)
            /\ ObjGet(line.json, "type", JStr("unknown")) \in TokenTypes \cup OutputTypes
            /\ Truthy(PayloadOf(line.json))
           THEN << PayloadOf(line.json).s >> ELSE << >>
    [] line.kind = "text" -> IF line.text # "" THEN << line.text >> ELSE << >>
    [] line.kind = "other" -> << "other" >>
    [] OTHER -> << >>

\* The simple client: the parser yields json.loads(data), or the payload
\* itself when that fails, or the line itself when it is no data: line;
\* _execute_streaming prints the chunks that are str (printing "" writes
\* nothing) and keeps the chunks that are dict as the final result.
SimpleEmits(line) ==
  CASE line.kind = "data" ->
         IF line.json.k = "str" /\ line.json.s # "" THEN << line.json.s >> ELSE << >>
    [] line.kind = "text" -> IF line.text # "" THEN << line.text >> ELSE << >>
    [] line.kind = "done" -> << "[DONE]" >>
    [] line.kind = "blank" -> << >>
    [] OTHER -> << line.kind >>

EmitInit ==
  /\ entry \in EmitEntries
  /\ pc = "e_lines"
  /\ streaming = TRUE
  /\ stage = "primary"
  /\ workflow = << >>
  /\ directory = EmptyMap
  /\ agentsCache = EmptyMap
  /\ store = {}
  /\ honest = TRUE
  /\ posted = << >>
  /\ calls = << >>
  /\ regResult = "ok"
  /\ history = << >>
  /\ execLog = << "stream" >>
  /\ result = JNull
  /\ finalResult = JNull
  /\ currentStep = JNull
  /\ stepOutput = << >>
  /\ linesRead = 0
  /\ respBody = JNull
  /\ shown = JNull
  /\ printed = << >>
  /\ buffer = << >>
  /\ unread = << >>
  /\ lastResp = Response(200, "text/event-stream", Unread)
  /\ linesSeen = << >>

\* The updated demo's loop handles one more line.
EmitUpdatedLine ==
  /\ entry = "updated.lines"
  /\ pc = "e_lines"
  /\ linesRead < MaxEmitLines
  /\ \E line \in EmitLines :
       /\ ~UpdatedLineRaises(line)
       /\ SetReader(UpdatedOnLine(line, ReaderNow))
       /\ printed' = printed \o UpdatedEmits(line)
       /\ UNCHANGED << buffer, unread >>
       /\ linesSeen' = Append(linesSeen, line)
  /\ linesRead' = linesRead + 1
  /\ UNCHANGED << stage, pc, workflow, regVars, execLog, result, fixedVars,
                  shown, lastResp >>

\* The simple client's parser yields one more line's chunk and
\* _execute_streaming consumes it.
EmitSimpleLine ==
  /\ entry = "simple.lines"
  /\ pc = "e_lines"
  /\ linesRead < MaxEmitLines
  /\ \E line \in EmitLines :
       /\ SetReader(LastDictOnLine(line, ReaderNow))
       /\ printed' = printed \o SimpleEmits(line)
       /\ UNCHANGED << buffer, unread >>
       /\ linesSeen' = Append(linesSeen, line)
  /\ linesRead' = linesRead + 1
  /\ UNCHANGED << stage, pc, workflow, regVars, execLog, result, fixedVars,
                  shown, lastResp >>

\* The body ends.
EmitClose ==
  /\ pc = "e_lines"
  /\ pc' = "e_closed"
  /\ UNCHANGED << stage, workflow, regVars, execLog, result, readerVars,
                  fixedVars, shown, printed, buffer, unread, obsVars >>

EmitNext ==
  \/ EmitUpdatedLine
  \/ EmitSimpleLine
  \/ EmitClose

SpecEmit == EmitInit /\ [][EmitNext]_vars

\* -------------------------------------------- the SimpleWorkflow builder
\* A fresh SimpleWorkflow and the builder calls made on it.  workflow is its
\* steps list; history logs the step id of each call, in call order.
BuilderStepIds == {"s1", "s2", "research"}
BuilderAgents  == {"writer", "editor"}

BuilderInit ==
  /\ entry = "builder"
  /\ pc = "b_build"
  /\ streaming = FALSE
  /\ stage = "primary"
  /\ workflow = << >>
  /\ directory = EmptyMap
  /\ agentsCache = EmptyMap
  /\ store = {}
  /\ honest = TRUE
  /\ posted = << >>
  /\ calls = << >>
  /\ regResult = "none"
  /\ history = << >>
  /\ execLog = << >>
  /\ result = JNull
  /\ finalResult = JNull
  /\ currentStep = JNull
  /\ stepOutput = << >>
  /\ linesRead = 0
  /\ respBody = JNull
  /\ shown = JNull
  /\ printed = << >>
  /\ buffer = << >>
  /\ unread = << >>
  /\ lastResp = NoResponse
  /\ linesSeen = << >>

\* add_step: self.steps.append(WorkflowStep(step_id, agent_name, ...)).
AppendStep(sid, agent) ==
  /\ workflow' = Append(workflow, Step(sid, agent))
  /\ history' = Append(history, sid)
  /\ UNCHANGED << entry, streaming, stage, pc, agentsCache, directory, store,
                  honest, posted, calls, regResult, execLog, result,
                  finalResult, currentStep, stepOutput, linesRead, respBody,
                  shown, printed, buffer, unread, lastResp, linesSeen >>

AddStep ==
  /\ pc = "b_build"
  /\ Len(workflow) < MaxSteps
  /\ \E sid \in BuilderStepIds, agent \in BuilderAgents : AppendStep(sid, agent)

\* The four helpers: add_step with a fixed step id; agent_name has a default.
AddResearchStep ==
  /\ pc = "b_build"
  /\ Len(workflow) < MaxSteps
  /\ \E agent \in {"research_assistant", "writer"} : AppendStep("research", agent)

AddWritingStep ==
  /\ pc = "b_build"
  /\ Len(workflow) < MaxSteps
  /\ \E agent \in {"content_creator", "writer"} : AppendStep("write_content", agent)

AddReviewStep ==
  /\ pc = "b_build"
  /\ Len(workflow) < MaxSteps
  /\ \E agent \in {"qa_specialist", "writer"} : AppendStep("review", agent)

AddCodeGenerationStep ==
  /\ pc = "b_build"
  /\ Len(workflow) < MaxSteps
  /\ \E agent \in {"code_assistant", "writer"} : AppendStep("generate_code", agent)

BuilderNext ==
  \/ AddStep
  \/ AddResearchStep
  \/ AddWritingStep
  \/ AddReviewStep
  \/ AddCodeGenerationStep

SpecBuilder == BuilderInit /\ [][BuilderNext]_vars

\* ------------------------------------------ two clients, one workflow id
\* Two client instances register workflow "w1" at the same time against one
\* create-or-409 store; every request is one atomic step of the server.  In
\* this specification pc, posted and regResult hold one value per client,
\* and a call in calls names its client.
Clients == {"A", "B"}
RaceEntries == {"simple.race", "demo.race"}

Peer(c) == CHOOSE d \in Clients : d # c

ClientCall(c, m, st) == [c |-> c, m |-> m, st |-> st]

RaceInit ==
  /\ entry \in RaceEntries
  /\ pc = [c \in Clients |-> IF entry = "simple.race" THEN "s_post1" ELSE "d_post1"]
  /\ posted = [c \in Clients |->
                 << Step("s1", IF c = "A" THEN "abc-123" ELSE "abc-456") >>]
  /\ regResult = [c \in Clients |-> "pending"]
  /\ store \in {{}, {OldDef}}
  /\ calls = << >>
  /\ streaming = FALSE
  /\ stage = "primary"
  /\ workflow = << Step("s1", "writer") >>
  /\ directory = EmptyMap
  /\ agentsCache = EmptyMap
  /\ honest = TRUE
  /\ history = << >>
  /\ execLog = << >>
  /\ result = JNull
  /\ finalResult = JNull
  /\ currentStep = JNull
  /\ stepOutput = << >>
  /\ linesRead = 0
  /\ respBody = JNull
  /\ shown = JNull
  /\ printed = << >>
  /\ buffer = << >>
  /\ unread = << >>
  /\ lastResp = NoResponse
  /\ linesSeen = << >>

raceFixed == << entry, streaming, stage, workflow, agentsCache, directory,
                honest, posted, history, execLog, result, finalResult,
                currentStep, stepOutput, linesRead, respBody, shown, printed, buffer, unread,
                lastResp, linesSeen >>

\* Client c goes on to `next`, or returns outcome r.
RaceGoto(c, next) ==
  pc' = [pc EXCEPT ![c] = next] /\ UNCHANGED regResult

RaceReturn(c, r) ==
  pc' = [pc EXCEPT ![c] = "done"] /\ regResult' = [regResult EXCEPT ![c] = r]

\* _register_workflow_with_cleanup, the first POST.
RaceSimplePost1 ==
  \E c \in Clients :
    /\ pc[c] = "s_post1"
    /\ \E st \in HonestPost(store) :
         /\ calls' = Append(calls, ClientCall(c, "POST", st))
         /\ store' = StoreAfterPost(store, st, posted[c])
         /\ CASE SimpleAfterFirstPost(st) = "ok" -> RaceReturn(c, "ok")
              [] SimpleAfterFirstPost(st) = "cleanup" -> RaceGoto(c, "s_delete")
              [] OTHER -> RaceReturn(c, "failed")
    /\ UNCHANGED raceFixed

RaceSimpleDelete ==
  \E c \in Clients :
    /\ pc[c] = "s_delete"
    /\ \E st \in HonestDelete(store) :
         /\ calls' = Append(calls, ClientCall(c, "DELETE", st))
         /\ store' = StoreAfterDelete(store, st)
         /\ IF SimpleDeleteOk(st)
              THEN RaceGoto(c, "s_post2")
              ELSE RaceReturn(c, "failed")
    /\ UNCHANGED raceFixed

RaceSimplePost2 ==
  \E c \in Clients :
    /\ pc[c] = "s_post2"
    /\ \E st \in HonestPost(store) :
         /\ calls' = Append(calls, ClientCall(c, "POST", st))
         /\ store' = StoreAfterPost(store, st, posted[c])
         /\ RaceReturn(c, IF st = 201 THEN "ok" ELSE "failed")
    /\ UNCHANGED raceFixed

\* register_workflow_with_cleanup, from register_workflow on.
RaceDemoRegister1 ==
  \E c \in Clients :
    /\ pc[c] = "d_post1"
    /\ \E st \in HonestPost(store) :
         /\ calls' = Append(calls, ClientCall(c, "POST", st))
         /\ store' = StoreAfterPost(store, st, posted[c])
         /\ RaceGoto(c, IF RegisterWorkflow(st) THEN "d_verify1" ELSE "d_delete")
    /\ UNCHANGED raceFixed

RaceDemoVerify1 ==
  \E c \in Clients :
    /\ pc[c] = "d_verify1"
    /\ \E st \in HonestGet(store) :
         /\ calls' = Append(calls, ClientCall(c, "GET", st))
         /\ IF VerifyWorkflowRegistration(st)
              THEN RaceReturn(c, "ok")
              ELSE RaceGoto(c, "d_delete")
    /\ UNCHANGED << store, raceFixed >>

RaceDemoDelete ==
  \E c \in Clients :
    /\ pc[c] = "d_delete"
    /\ \E st \in HonestDelete(store) :
         /\ calls' = Append(calls, ClientCall(c, "DELETE", st))
         /\ store' = StoreAfterDelete(store, st)
         /\ IF DeleteWorkflow(st)
              THEN RaceGoto(c, "d_post2")
              ELSE RaceReturn(c, "failed")
    /\ UNCHANGED raceFixed

RaceDemoRegister2 ==
  \E c \in Clients :
    /\ pc[c] = "d_post2"
    /\ \E st \in HonestPost(store) :
         /\ calls' = Append(calls, ClientCall(c, "POST", st))
         /\ store' = StoreAfterPost(store, st, posted[c])
         /\ IF RegisterWorkflow(st)
              THEN RaceGoto(c, "d_verify2")
              ELSE RaceReturn(c, "failed")
    /\ UNCHANGED raceFixed

RaceDemoVerify2 ==
  \E c \in Clients :
    /\ pc[c] = "d_verify2"
    /\ \E st \in HonestGet(store) :
         /\ calls' = Append(calls, ClientCall(c, "GET", st))
         /\ RaceReturn(c, IF VerifyWorkflowRegistration(st) THEN "ok" ELSE "failed")
    /\ UNCHANGED << store, raceFixed >>

RaceNext ==
  \/ RaceSimplePost1
  \/ RaceSimpleDelete
  \/ RaceSimplePost2
  \/ RaceDemoRegister1
  \/ RaceDemoVerify1
  \/ RaceDemoDelete
  \/ RaceDemoRegister2
  \/ RaceDemoVerify2

SpecRace == RaceInit /\ [][RaceNext]_vars

\* ------------------------------------------------- the final output shown
\* Results with and without final_output, with up to two steps that succeed
\* or fail and carry or lack an output, put through execute_workflow's
\* reshaping and through _ensure_output_displayed.
StepOutputOf(step) ==
  IF Truthy(ObjGet(step, "output", JNull)) THEN ObjGet(step, "output", JNull)
  ELSE IF Truthy(ObjGet(ObjGet(step, "result_data", EmptyObj), "text", JNull))
    THEN ObjGet(ObjGet(step, "result_data", EmptyObj), "text", JNull)
  ELSE ObjGet(step, "result", JNull)

RECURSIVE LastSuccessfulOutput(_, _)
\* for step_name, step_data in reversed(list(step_results.items())): the
\* first step, from the last one back, that reports success and has a truthy
\* output; JNull when there is none.
LastSuccessfulOutput(sr, i) ==
  IF i = 0 THEN JNull
  ELSE LET step == sr.val[sr.keys[i]]
       IN IF Truthy(ObjGet(step, "success", JNull)) /\ Truthy(StepOutputOf(step))
            THEN StepOutputOf(step)
            ELSE LastSuccessfulOutput(sr, i - 1)

\* _ensure_output_displayed: the output text it prints, JNull when it prints
\* none.
EnsureOutputDisplayed(r) ==
  IF ~Truthy(r) THEN JNull
  ELSE IF HasKey(r, "final_output") /\ Truthy(r.val["final_output"])
    THEN r.val["final_output"]
  ELSE IF HasKey(r, "step_results")
    THEN LastSuccessfulOutput(r.val["step_results"], Len(r.val["step_results"].keys))
  ELSE JNull

OutputStep(su, out) == ObjOf(<< << "success", su >>, << "output", out >> >>)

OutputSteps(o) ==
  { OutputStep(su, out) :
      su \in {Absent, JBool(TRUE), JBool(FALSE)}, out \in {Absent, JStr(""), JStr(o)} }

OutputStepResults ==
  { Absent, EmptyObj }
    \cup { ObjOf(<< << "s1", a >> >>) : a \in OutputSteps("o1") }
    \cup { ObjOf(<< << "s1", a >>, << "s2", b >> >>) :
             a \in OutputSteps("o1"), b \in OutputSteps("o2") }

OutputBodies ==
  { ObjOf(<< << "success", SuccessTrue >>, << "final_output", fo >>,
             << "step_results", sr >> >>) :
      fo \in {Absent, JStr(""), JStr("F")}, sr \in OutputStepResults }

OutputEntries == {"demo.sync", "updated.output"}

OutputInit ==
  /\ entry \in OutputEntries
  /\ respBody \in OutputBodies
  /\ pc = "n_in"
  /\ streaming = FALSE
  /\ stage = "primary"
  /\ workflow = << >>
  /\ directory = EmptyMap
  /\ agentsCache = EmptyMap
  /\ store = {}
  /\ honest = TRUE
  /\ posted = << >>
  /\ calls = << >>
  /\ regResult = "ok"
  /\ history = << >>
  /\ execLog = << >>
  /\ result = JNull
  /\ finalResult = JNull
  /\ currentStep = JNull
  /\ stepOutput = << >>
  /\ linesRead = 0
  /\ shown = JNull
  /\ printed = << >>
  /\ buffer = << >>
  /\ unread = << >>
  /\ lastResp = NoResponse
  /\ linesSeen = << >>

\* SequentialWorkflowDemo.execute_workflow on the 200 body.
OutputDemoSync ==
  /\ entry = "demo.sync"
  /\ Handled(DemoExecuteWorkflow(200, respBody))

\* The updated demo's caller: the result of the simple client's execute,
\* then _ensure_output_displayed on it.
OutputEnsureDisplayed ==
  /\ entry = "updated.output"
  /\ pc = "n_in"
  /\ pc' = "n_out"
  /\ LET r == SimpleExecuteSync(200, respBody)
     IN /\ result' = r
        /\ printed' = printed
        /\ UNCHANGED << buffer, unread >>
        /\ shown' = EnsureOutputDisplayed(r)
  /\ UNCHANGED << stage, workflow, regVars, execLog, readerVars, fixedVars, obsVars >>

OutputNext ==
  \/ OutputDemoSync
  \/ OutputEnsureDisplayed

SpecOutput == OutputInit /\ [][OutputNext]_vars

\* ================================================================ claims
IsRegCall(c) == c.m \in {"POST", "DELETE"}

\* The POST /workflows and DELETE exchanges of the running/last register call.
RegCalls == SelectSeq(calls, IsRegCall)

SimpleRegistrar == entry \in {"simple.register", "simple.execute", "updated.execute"}
DemoRegistrar   == entry \in {"demo.register", "demo.run"}

DeleteOkStatuses == {200, 204, 404}

\* C1: against a create-or-409 store with no other writer, every register
\* call in a row ends the same way and never as a failure: the 409 of a
\* repeated registration is absorbed by the cleanup.
C1_IdempotentRegistration ==
  honest => \A i \in 1..Len(history) :
              history[i] = history[1] /\ history[i] # "failed"

C1_Witness ==
  /\ entry \in RegisterEntries
  /\ honest
  /\ pc = "done"
  /\ Len(history) = 2
  /\ history[2] = "ok"
  /\ Call("POST", 409) \in Range(calls)

\* The slot of a step holds no remote id of the mapping the call resolves
\* against: the cache for SimpleWorkflowClient, the listing fetched by this
\* call for the demo.
ResolverMap ==
  IF SimpleRegistrar THEN agentsCache
  ELSE IF calls # << >> /\ calls[1].m = "GET_AGENTS"
    THEN AgentMapping(ListAvailableAgents(calls[1].st, directory))
    ELSE EmptyMap

Unresolvable ==
  IF SimpleRegistrar THEN ~ConvertOk(workflow, agentsCache)
  ELSE \E i \in 1..Len(workflow) :
         workflow[i].agent \notin {ResolverMap[n] : n \in DOMAIN ResolverMap}

\* C2: when a step's agent is not resolvable, the call fails and no
\* POST /workflows and no DELETE is sent.
C2_ResolutionAtomicity ==
  (pc # "idle" /\ Unresolvable) => (RegCalls = << >> /\ regResult = "unresolved")

Count(log, what) == Len(SelectSeq(log, LAMBDA x : x = what))

\* C3: one streaming execute call sends at most one streaming and at most
\* one synchronous execute POST.
C3_FallbackBound ==
  streaming => Count(execLog, "stream") <= 1 /\ Count(execLog, "sync") <= 1

\* C4 as stated: at most two POSTs and one DELETE; a second POST only after
\* a 409 on the first POST and a DELETE; a failed second POST ends the call.
C4_AsStated ==
  LET rc == RegCalls
  IN /\ Len(rc) <= 3
     /\ Len(rc) >= 1 => rc[1].m = "POST"
     /\ Len(rc) >= 2 => rc[1] = Call("POST", 409) /\ rc[2].m = "DELETE"
     /\ Len(rc) = 3 => /\ rc[3].m = "POST"
                       /\ rc[3].st # 201 => regResult = "failed"

\* The first registration attempt of the call failed: a 409 for
\* SimpleWorkflowClient; for the demo any first POST that did not give 201,
\* or a 201 whose verification GET did not give 200.
FirstAttemptFailed ==
  IF SimpleRegistrar THEN RegCalls[1].st = 409
  ELSE \/ RegCalls[1].st # 201
       \/ Len(calls) >= 3 /\ calls[3].m = "GET" /\ calls[3].st # 200

\* C4 (amended): at most two POSTs and one DELETE, in the order POST, DELETE,
\* POST; the DELETE only after a failed first attempt, the second POST only
\* after a DELETE answered 200/204/404; a failed second POST ends the call
\* as a failure, nothing is sent after it.
C4_RetryBound ==
  LET rc == RegCalls
  IN /\ Len(rc) <= 3
     /\ Len(rc) >= 1 => rc[1].m = "POST"
     /\ Len(rc) >= 2 => rc[2].m = "DELETE" /\ FirstAttemptFailed
     /\ Len(rc) = 3 => /\ rc[3].m = "POST"
                       /\ rc[2].st \in DeleteOkStatuses
                       /\ rc[3].st # 201 =>
                            regResult = "failed" /\ calls[Len(calls)] = rc[3]

C4_Witness ==
  /\ Len(RegCalls) = 3
  /\ RegCalls[1] = Call("POST", 409)
  /\ RegCalls[3].st = 500
  /\ regResult = "failed"

\* The register call has ended (its exchanges are still in calls).
RegEnded == regResult \in {"ok", "failed"}

CleanupScenario ==
  /\ Len(RegCalls) >= 2
  /\ RegCalls[1] = Call("POST", 409)
  /\ RegCalls[2].m = "DELETE"
  /\ RegCalls[2].st \in DeleteOkStatuses

\* C5 as stated: POST 409, DELETE 200/204/404, POST 201 is a success made of
\* exactly these three HTTP exchanges.
C5_AsStated ==
  (RegEnded /\ CleanupScenario /\ Len(RegCalls) = 3 /\ RegCalls[3].st = 201)
    => (regResult = "ok" /\ calls = RegCalls)

\* C5 (amended): after POST 409 and DELETE 200/204/404 the call always goes
\* on to the re-POST; with a 201 there, SimpleWorkflowClient reports success
\* after exactly the three exchanges POST, DELETE, POST, and the demo, which
\* also sends GET /agents first and a verification GET last, reports success
\* exactly when that verification GET gives 200.
C5_CleanupScenario ==
  (RegEnded /\ CleanupScenario) =>
    /\ Len(RegCalls) = 3
    /\ RegCalls[3].m = "POST"
    /\ RegCalls[3].st = 201 =>
         IF SimpleRegistrar
           THEN regResult = "ok" /\ calls = RegCalls
           ELSE /\ Len(calls) = 5
                /\ calls[1].m = "GET_AGENTS"
                /\ SubSeq(calls, 2, 4) = RegCalls
                /\ calls[5].m = "GET"
                /\ regResult = "ok" <=> calls[5].st = 200

C5_Witness ==
  /\ SimpleRegistrar
  /\ RegEnded
  /\ calls = << Call("POST", 409), Call("DELETE", 404), Call("POST", 201) >>
  /\ regResult = "ok"

\* C6 as stated: a first POST status other than 201/409 ends the call at
\* once, without DELETE or further POST; so does a DELETE status other than
\* 200/204/404.
C6_AsStated ==
  LET rc == RegCalls
  IN /\ (Len(rc) >= 1 /\ rc[1].st \notin {201, 409}) =>
          (Len(rc) = 1 /\ regResult = "failed")
     /\ (Len(rc) >= 2 /\ rc[2].st \notin DeleteOkStatuses) =>
          (Len(rc) = 2 /\ regResult = "failed")

\* C6 (amended): SimpleWorkflowClient ends the call at once on a first POST
\* status other than 201/409; the demo goes on to the cleanup DELETE after
\* every first POST that did not give 201; in both a DELETE status other than
\* 200/204/404 ends the call as a failure with no further POST.
C6_HardFailure ==
  LET rc == RegCalls
  IN /\ (SimpleRegistrar /\ Len(rc) >= 1 /\ rc[1].st \notin {201, 409}) =>
          (Len(rc) = 1 /\ regResult = "failed")
     /\ (DemoRegistrar /\ Len(rc) = 1 /\ rc[1].st # 201) =>
          (regResult = "pending" /\ pc = "d_delete")
     /\ (Len(rc) >= 2 /\ rc[2].st \notin DeleteOkStatuses) =>
          (Len(rc) = 2 /\ regResult = "failed")

C6_Witness ==
  /\ DemoRegistrar
  /\ Len(RegCalls) = 2
  /\ RegCalls[1] = Call("POST", 500)
  /\ RegCalls[2] = Call("DELETE", 500)
  /\ regResult = "failed"

VerifiedAt(i) ==
  /\ i >= 2
  /\ calls[i] = Call("GET", 200)
  /\ calls[i - 1] = Call("POST", 201)

\* C7 as stated: success only after a verification GET that found the
\* workflow right after the last 201; a 201 followed by a verification that
\* did not find it makes the register call a failure.
C7_AsStated ==
  DemoRegistrar =>
    /\ regResult = "ok" => VerifiedAt(Len(calls))
    /\ (RegEnded /\ \E i \in 2..Len(calls) :
                      /\ calls[i].m = "GET" /\ calls[i].st # 200
                      /\ calls[i - 1] = Call("POST", 201))
         => regResult = "failed"

\* C7 (amended): the demo reports success only when the last exchange is a
\* verification GET answered 200 right after a POST answered 201; every 201
\* is followed at once by the verification GET; a failed verification of the
\* first POST sends the call on to the cleanup DELETE, a failed verification
\* of the re-POST ends it as a failure.
C7_Verification ==
  DemoRegistrar =>
    /\ regResult = "ok" => VerifiedAt(Len(calls))
    /\ \A i \in 1..Len(calls) :
         calls[i] = Call("POST", 201) =>
           /\ i = Len(calls) => pc \in {"d_verify1", "d_verify2"}
           /\ i < Len(calls) => calls[i + 1].m = "GET"
    /\ \A i \in 2..Len(calls) :
         (calls[i].m = "GET" /\ calls[i].st # 200) =>
           IF \E j \in 1..i : calls[j].m = "DELETE"
             THEN i = Len(calls) /\ regResult = "failed"
             ELSE /\ i = Len(calls) => pc = "d_delete"
                  /\ i < Len(calls) => calls[i + 1].m = "DELETE"

C7_Witness ==
  /\ DemoRegistrar
  /\ regResult = "failed"
  /\ Len(calls) = 6
  /\ calls[5] = Call("POST", 201)
  /\ calls[6] = Call("GET", 404)

\* C8: the normalizer turns every 200 body into a non-null result that holds
\* a step_results mapping.
C8_NormalizerTotality ==
  (pc = "n_out" /\ entry \in {"demo.sync", "simple.sync"}) =>
    /\ IsDict(result)
    /\ HasKey(result, "step_results")
    /\ IsDict(result.val["step_results"])

StepKeys == << "step_results", "steps", "executed_steps", "results" >>

NormInput == DemoUnwrap(respBody)

\* C9: the normalized step_results is the value of the first key present
\* among step_results, steps, executed_steps, results, in that order; the
\* display that follows lists that same collection whenever it is non-empty.
C9_ProbeOrder ==
  (pc = "n_out" /\ entry \in {"demo.sync", "demo.display"} /\ IsDict(NormInput)) =>
    /\ \A i \in 1..Len(StepKeys) :
         (/\ HasKey(NormInput, StepKeys[i])
          /\ \A j \in 1..(i - 1) : ~HasKey(NormInput, StepKeys[j]))
           => /\ IsDict(result)
              /\ HasKey(result, "step_results")
              /\ result.val["step_results"] = NormInput.val[StepKeys[i]]
    /\ (/\ entry = "demo.display"
        /\ HasKey(result, "step_results")
        /\ Truthy(result.val["step_results"]))
         => shown = result.val["step_results"]

C9_Witness ==
  /\ pc = "n_out"
  /\ entry = "demo.display"
  /\ IsDict(NormInput)
  /\ ~HasKey(NormInput, "step_results")
  /\ ~HasKey(NormInput, "steps")
  /\ HasKey(NormInput, "executed_steps")
  /\ HasKey(NormInput, "results")
  /\ NormInput.val["executed_steps"] # NormInput.val["results"]
  /\ Truthy(NormInput.val["executed_steps"])
  /\ result.val["step_results"] = NormInput.val["executed_steps"]
  /\ shown = NormInput.val["executed_steps"]

\* C10: every result handed to the caller has a boolean success and a
\* step_results mapping keyed by step_id at top level.
C10_ResultShape ==
  (pc = "n_out" /\ result # JNull) =>
    /\ IsDict(result)
    /\ HasKey(result, "success")
    /\ result.val["success"].k = "bool"
    /\ HasKey(result, "step_results")
    /\ IsDict(result.val["step_results"])

\* The top-level `success` of a result and the step ids under its
\* `step_results`, Absent where the result has none.
SuccessOf(r) ==
  IF IsDict(r) /\ HasKey(r, "success") THEN r.val["success"] ELSE Absent

StepIdsOf(r) ==
  IF IsDict(r) /\ HasKey(r, "step_results") /\ IsDict(r.val["step_results"])
    THEN Range(r.val["step_results"].keys) ELSE {Absent}

\* C11: for one server-side outcome the streaming strategy's terminal result
\* and the synchronous strategy's result have the same success and the same
\* step_results keys.
C11_StreamingSyncEquivalence ==
  pc = "p_out" =>
    /\ SuccessOf(finalResult) = SuccessOf(result)
    /\ StepIdsOf(finalResult) = StepIdsOf(result)

\* The latest execute-side request is the streaming POST, answered 200.
StreamAnswered ==
  /\ execLog # << >>
  /\ execLog[Len(execLog)] = "stream"
  /\ lastResp.st = 200

LineReaderEntered ==
  \/ lastResp.doc = Unread
  \/ linesRead > 0
  \/ pc \in {"u_lines", "u_status", "u_sync", "e_lines"}

DataUnwrapped(doc) ==
  IF IsDict(doc) /\ HasKey(doc, "data") THEN doc.val["data"] ELSE doc

StreamedDicts == {l.json : l \in {x \in Lines : x.kind = "data" /\ IsDict(x.json)}}

ServerSupplied ==
  StreamedDicts \cup
  {d.val["result"] : d \in {x \in StreamedDicts : HasKey(x, "result")}}

\* C13: a streaming call that ends without any request after the stream was
\* read (no fallback was invoked) returns a terminal result the server
\* supplied on that stream; a stream closed with none captured is followed
\* by the fallback, never by a failure or by a result made up by the client.
C13_StreamCloseFallback ==
  (/\ streaming
   /\ pc = "done"
   /\ stage = "primary"
   /\ StreamAnswered
   /\ lastResp.doc = Unread) => finalResult \in ServerSupplied

FallbackOrder == << "stream", "status", "sync" >>

\* C14: the execute-side requests of one streaming call are, in order, the
\* streaming execute, one status GET, one synchronous execute: each at most
\* once, none revisited, no synchronous execute without the status GET
\* before it.
C14_FallbackOrder ==
  entry = "updated.execute" =>
    /\ Len(execLog) <= Len(FallbackOrder)
    /\ execLog = SubSeq(FallbackOrder, 1, Len(execLog))

IsEventLine(line, types) ==
  /\ line.kind = "data"
  /\ IsDict(line.json)
  /\ HasKey(line.json, "type")
  /\ line.json.val["type"] \in {JStr(t) : t \in types}

\* The text a line adds to a step's output: the token/output event's text,
\* the raw text of a data line that is no JSON; nothing for any other line.
TextOf(line) ==
  IF IsEventLine(line, {"token", "llm_token", "output", "llm_output"})
    THEN LET ev == line.json
             own == IF IsEventLine(line, {"token", "llm_token"})
                      THEN "token" ELSE "output"
             t  == IF HasKey(ev, own) THEN ev.val[own]
                   ELSE IF HasKey(ev, "content") THEN ev.val["content"]
                   ELSE JStr("")
         IN IF t.k = "str" /\ t.s # "" THEN << t.s >> ELSE << >>
  ELSE IF line.kind = "text" /\ line.text # "" THEN << line.text >>
  ELSE << >>

RECURSIVE TextSince(_, _)
\* The texts of lines[from..], in order.
TextSince(lines, from) ==
  IF from > Len(lines) THEN << >>
  ELSE TextOf(lines[from]) \o TextSince(lines, from + 1)

StepStarts(lines) ==
  {i \in 1..Len(lines) : IsEventLine(lines[i], {"step_start"})}

LastStepStart(lines) ==
  IF StepStarts(lines) = {} THEN 0
  ELSE CHOOSE i \in StepStarts(lines) : \A j \in StepStarts(lines) : j <= i

\* C15: the step buffer is the concatenation, in arrival order, of the texts
\* of the token/output events (and raw-text data lines) received since the
\* step's step_start; at its step_complete it holds exactly the texts
\* received between the two.
C15_TokenBuffer ==
  (entry = "updated.reader" /\ pc \in {"r_lines", "r_closed"}) =>
    stepOutput = TextSince(linesSeen, LastStepStart(linesSeen) + 1)

C15_Witness ==
  /\ entry = "updated.reader"
  /\ pc = "r_closed"
  /\ Len(linesSeen) = 5
  /\ IsEventLine(linesSeen[1], {"step_start"})
  /\ linesSeen[2] = TokenLine(JStr("a"))
  /\ linesSeen[3] = TokenLine(JStr("b"))
  /\ linesSeen[4] = TokenLine(JStr("c"))
  /\ IsEventLine(linesSeen[5], {"step_complete"})
  /\ stepOutput = << "a", "b", "c" >>
  /\ finalResult = JNull

HasCall(method) == \E i \in 1..Len(calls) : calls[i].m = method

\* C16: name resolution fails for a missing agent only after a fresh fetch of
\* the directory triggered by the miss, and only when the server's directory
\* does not hold the name either.
C16_RefetchOnMiss ==
  (SimpleRegistrar /\ regResult = "unresolved") =>
    /\ HasCall("GET_AGENTS")
    /\ ~ConvertOk(workflow, AgentMapping(directory))

\* The workflow as the caller wrote it, with agent names.
CallerWorkflow == CHOOSE w \in Workflows : Len(w) = Len(workflow)

\* C17: the definition sent by POST /workflows has the caller's steps in
\* insertion order, each with the id the directory maps its agent name to.
C17_PostedDefinition ==
  HasCall("POST") =>
    /\ Len(posted) = Len(CallerWorkflow)
    /\ \A i \in 1..Len(posted) :
         /\ posted[i].step_id = CallerWorkflow[i].step_id
         /\ CallerWorkflow[i].agent \in DOMAIN ResolverMap
         /\ posted[i].agent = ResolverMap[CallerWorkflow[i].agent]

\* C18: after any sequence of builder calls the step ids are pairwise
\* distinct and the steps are in the order of the calls.
C18_BuilderSteps ==
  entry = "builder" =>
    /\ \A i, j \in 1..Len(workflow) :
         i # j => workflow[i].step_id # workflow[j].step_id
    /\ Len(workflow) = Len(history)
    /\ \A i \in 1..Len(workflow) : workflow[i].step_id = history[i]

\* C19: resolving and registering never change the caller's workflow.
C19_CallerWorkflowUnchanged == [][workflow' = workflow]_vars

\* C20: a synchronous execute call sends exactly one execute POST, and when
\* the answer is not a 200 (or there is none) the call returns None.
C20_SingleExecutePost ==
  (entry \in {"simple.execute", "demo.run"} /\ ~streaming) =>
    /\ Len(execLog) = (IF pc = "done" /\ regResult = "ok" THEN 1 ELSE 0)
    /\ Count(execLog, "sync") = Len(execLog)
    /\ (pc = "done" /\ regResult = "ok" /\ lastResp.st # 200) => result = JNull

C20_Witness ==
  /\ entry = "simple.execute"
  /\ ~streaming
  /\ pc = "done"
  /\ regResult = "ok"
  /\ execLog = << "sync" >>
  /\ lastResp.st = 500
  /\ result = JNull

\* C21: one caller-level execute of a workflow, its fallbacks included, runs
\* the resolve-and-register sequence exactly once.
C21_RegistrationOncePerCall ==
  (entry \in ExecuteEntries /\ pc = "done") => Len(history) = 1

FailureKinds == {"resolution", "registration", "execution"}

\* The kind of failure the finished execute call met.
FailureKind ==
  IF regResult = "unresolved" THEN "resolution"
  ELSE IF regResult = "failed" THEN "registration"
  ELSE "execution"

ExecuteFailed ==
  /\ entry \in {"simple.execute", "updated.execute"}
  /\ pc = "done"
  /\ (regResult = "ok" => (execLog # << >> /\ lastResp.st # 200))

\* C22: the value an execute call returns on failure tells the caller which
\* of resolution, registration and execution failed.
C22_DistinctFailures ==
  \A k \in FailureKinds :
    (ExecuteFailed /\ result = ReturnedOnFailure(k)) => FailureKind = k

CallsOf(c, m, sts) ==
  {i \in 1..Len(calls) : calls[i].c = c /\ calls[i].m = m /\ calls[i].st \in sts}

\* Client c's register returned success and the store no longer holds the
\* definition c created.
LostRegistration(c) ==
  /\ pc[c] = "done"
  /\ regResult[c] = "ok"
  /\ store # {posted[c]}

\* C24: with two clients registering the same workflow id, a register that
\* reported success can be followed by a store without its definition, and
\* this happens exactly through the other client's DELETE landing after the
\* definition was created.
C24_RaceWindow ==
  entry \in RaceEntries =>
    \A c \in Clients :
      LostRegistration(c) =>
        \E i \in CallsOf(c, "POST", {201}), j \in CallsOf(Peer(c), "DELETE", {200, 204}) :
          i < j

\* A's definition is created while B is between its first POST and its
\* DELETE; B's DELETE removes it and B's definition takes its place.
C24_Witness ==
  /\ entry \in RaceEntries
  /\ LostRegistration("A")
  /\ regResult["B"] = "ok"
  /\ store = {posted["B"]}
  /\ \E h \in CallsOf("B", "POST", {409}), i \in CallsOf("A", "POST", {201}),
        j \in CallsOf("B", "DELETE", {200, 204}) : h < i /\ i < j

\* A streamed response body is being read.
StreamOpen == pc \in {"x_lines", "e_lines", "u_lines"}

\* C25: while a streamed body is being read the streaming POST is the
\* latest and only execute-side request in flight; the status GET and the
\* synchronous POST come only after the body was read to its end or given up.
C25_OneConnection ==
  (entry \in ExecuteEntries /\ StreamOpen) =>
    /\ execLog # << >>
    /\ execLog[Len(execLog)] = "stream"
    /\ Count(execLog, "stream") = 1
    /\ lastResp.st = 200
    /\ lastResp.doc = Unread

C25_Witness ==
  /\ entry = "updated.execute"
  /\ stage = "primary"
  /\ ~StreamOpen
  /\ linesRead >= 1
  /\ execLog = << "stream", "status", "sync" >>

\* The step in which the connection fails while the updated demo reads the
\* streamed body.
StreamCut ==
  /\ entry = "updated.execute"
  /\ pc = "u_lines"
  /\ lastResp.doc # Broken
  /\ lastResp'.doc = Broken

\* C26: when the connection fails in the middle of the stream the step
\* buffers are dropped and the fallback goes on as after a clean end of
\* stream without a result: the status GET comes next.
C26_CutStreamFallback ==
  [][StreamCut => (pc' = "u_status" /\ execLog' = execLog)]_vars

RECURSIVE LastSuccessful(_, _)
\* The last step of sr[1..i] that reports success == true, Absent if none.
LastSuccessful(sr, i) ==
  IF i = 0 THEN Absent
  ELSE IF ObjGet(sr.val[sr.keys[i]], "success", JNull) = JBool(TRUE)
    THEN sr.val[sr.keys[i]]
    ELSE LastSuccessful(sr, i - 1)

\* final_output as the spec derives it from a body.
DerivedFinalOutput(body) ==
  IF HasKey(body, "final_output") THEN body.val["final_output"]
  ELSE LET sr   == ObjGet(body, "step_results", EmptyObj)
           last == LastSuccessful(sr, Len(sr.keys))
       IN IF last = Absent THEN JStr("") ELSE ObjGet(last, "output", JStr(""))

\* C27: the normalized final_output is the body's final_output when it has
\* one, otherwise the output of the last successful step of step_results,
\* otherwise the empty string.
C27_FinalOutput ==
  (entry \in OutputEntries /\ pc = "n_out") =>
    IF entry = "demo.sync"
      THEN ObjGet(result, "final_output", Absent) = DerivedFinalOutput(respBody)
      ELSE (IF shown = JNull THEN JStr("") ELSE shown) = DerivedFinalOutput(respBody)

\* The dict execute_workflow reshapes: the body, or its 'data' member.
ServerDict ==
  IF IsDict(respBody) /\ HasKey(respBody, "data") /\ IsDict(respBody.val["data"])
    THEN respBody.val["data"] ELSE respBody

\* C28: in the result of execute_workflow, workflow_id and
\* total_execution_time_ms are the server's values whenever the body holds
\* them, and the call's workflow id and the measured time only when it
\* does not.
C28_BackfillFillsGaps ==
  (entry = "demo.sync" /\ pc = "n_out" /\ IsDict(ServerDict)) =>
    /\ IsDict(result)
    /\ result.val["workflow_id"] =
         (IF HasKey(ServerDict, "workflow_id")
            THEN ServerDict.val["workflow_id"] ELSE CallWorkflowId)
    /\ result.val["total_execution_time_ms"] =
         (IF HasKey(ServerDict, "total_execution_time_ms")
            THEN ServerDict.val["total_execution_time_ms"] ELSE MeasuredTime)

C28_Witness ==
  /\ entry = "demo.sync"
  /\ pc = "n_out"
  /\ IsDict(ServerDict)
  /\ HasKey(ServerDict, "workflow_id")
  /\ ~HasKey(ServerDict, "total_execution_time_ms")
  /\ result.val["workflow_id"] = JStr("srv-w1")
  /\ result.val["total_execution_time_ms"] = MeasuredTime

ProgressTypes ==
  { JStr(t) : t \in {"step_start", "token", "llm_token", "output", "llm_output",
                     "step_complete", "error"} }

IsProgressEvent(r) == IsDict(r) /\ ObjGet(r, "type", JNull) \in ProgressTypes

\* C29: what a streamed execution returns is never a progress event
\* (step_start, token/output, step_complete, error), whether or not the
\* stream carried a terminal event.
C29_ProgressNeverReturned ==
  (entry \in ExecuteEntries /\ streaming /\ pc = "done") =>
    /\ ~IsProgressEvent(result)
    /\ ~IsProgressEvent(finalResult)

\* C30: once the reader has captured a terminal result, no later line of the
\* stream changes it or opens a step again.
C30_DoneIsFinal ==
  [][(entry = "updated.reader" /\ pc = "r_lines" /\ finalResult # JNull) =>
       /\ finalResult' = finalResult
       /\ currentStep' \in {currentStep, JNull}]_vars

\* The lines that carry a terminal result: a workflow_complete event, or an
\* object that is no event of a known type and holds final_output or
\* step_results.
IsTerminalLine(line) ==
  \/ IsEventLine(line, {"workflow_complete"})
  \/ /\ line.kind = "data"
     /\ IsDict(line.json)
     /\ ~IsProgressEvent(line.json)
     /\ HasKey(line.json, "final_output") \/ HasKey(line.json, "step_results")

TerminalOf(line) ==
  IF IsEventLine(line, {"workflow_complete"})
    THEN ObjGet(line.json, "result", line.json) ELSE line.json

Terminals(lines) == {i \in 1..Len(lines) : IsTerminalLine(lines[i])}

Errors(lines) == {i \in 1..Len(lines) : IsEventLine(lines[i], {"error"})}

\* C31: an error event neither ends the reading nor fixes the outcome: the
\* captured result is that of the latest terminal line, error events before
\* or after it notwithstanding, and none while no terminal line has come.
C31_ErrorNotTerminal ==
  (entry = "updated.reader" /\ pc \in {"r_lines", "r_closed"}) =>
    IF Terminals(linesSeen) = {} THEN finalResult = JNull
    ELSE finalResult =
           TerminalOf(linesSeen[CHOOSE i \in Terminals(linesSeen) :
                                  \A j \in Terminals(linesSeen) : j <= i])

C31_Witness ==
  /\ entry = "updated.reader"
  /\ pc = "r_closed"
  /\ \E i \in Errors(linesSeen) :
       /\ i + 1 \in Errors(linesSeen)
       /\ Len(linesSeen) = i + 2
       /\ IsEventLine(linesSeen[i + 2], {"workflow_complete"})
  /\ finalResult = BodyOk

StepCompletes(lines) ==
  {i \in 1..Len(lines) : IsEventLine(lines[i], {"step_complete"})}

\* The index of the step_complete that closed the latest step, 0 while that
\* step is open or no step has started.
LastStepClose(lines) ==
  LET after == {i \in StepCompletes(lines) : i > LastStepStart(lines)}
  IN IF LastStepStart(lines) = 0 \/ after = {} THEN 0
     ELSE CHOOSE i \in after : \A j \in after : i <= j

\* C32: step_start puts the reader in a step with an empty buffer; step_complete
\* takes it out of the step and closes the buffer: a closed buffer holds the
\* texts received between the step's step_start and its step_complete.
C32_StepTransitions ==
  (entry = "updated.reader" /\ pc \in {"r_lines", "r_closed"}) =>
    LET start == LastStepStart(linesSeen)
        close == LastStepClose(linesSeen)
    IN /\ (currentStep # JNull) <=> (start > 0 /\ close = 0)
       /\ close > 0 =>
            stepOutput = TextSince(SubSeq(linesSeen, 1, close - 1), start + 1)

\* The line the step handled: the one it added to the log.
LineHandled == linesSeen'[Len(linesSeen')]

\* C33: a data: line whose payload is no JSON is taken as raw text. The
\* updated demo's loop prints it and appends it to the step buffer, whether
\* or not a step is active, unless the payload is empty or [DONE]: those it
\* skips. The simple client, which keeps no buffer, prints it, [DONE] too.
C33_RawTextKept ==
  [][ Len(linesSeen') = Len(linesSeen) + 1 =>
        /\ (LineHandled.kind = "text" /\ LineHandled.text # "") =>
             /\ printed' = Append(printed, LineHandled.text)
             /\ entry = "updated.lines" =>
                  stepOutput' = Append(stepOutput, LineHandled.text)
        /\ (LineHandled.kind = "text" /\ LineHandled.text = "") =>
             printed' = printed /\ stepOutput' = stepOutput
        /\ LineHandled.kind = "done" =>
             /\ stepOutput' = stepOutput
             /\ printed' = IF entry = "updated.lines" THEN printed
                           ELSE Append(printed, "[DONE]")
    ]_vars

C33_Witness ==
  /\ entry = "updated.lines"
  /\ pc = "e_closed"
  /\ Len(linesSeen) = 4
  /\ IsEventLine(linesSeen[1], {"step_start"})
  /\ linesSeen[2] = DataText("x")
  /\ linesSeen[3] = PlainLine("done")
  /\ linesSeen[4] = DataText("x")
  /\ stepOutput = << "x", "x" >>
  /\ printed = << "x", "x" >>

\* C33 as stated: no data: line whose payload is no JSON is dropped; each is
\* written out and, in the updated demo's loop, appended to the buffer.
C33_NeverDropped ==
  [][ (Len(linesSeen') = Len(linesSeen) + 1 /\ LineHandled.kind \in {"text", "done"}) =>
        /\ printed' # printed
        /\ entry = "updated.lines" => stepOutput' # stepOutput
    ]_vars

C35_DefinitionFreshness ==
  (honest /\ regResult = "ok" /\ RegCalls # << >>) =>
    LET rc == RegCalls
    IN /\ store = {posted}
       /\ rc[Len(rc)] = Call("POST", 201)
       /\ Len(rc) > 1 =>
            /\ Len(rc) = 3
            /\ rc[1] = Call("POST", 409)
            /\ rc[2].m = "DELETE" /\ rc[2].st \in {200, 204}

C35_Witness ==
  /\ entry \in RegisterEntries
  /\ honest
  /\ pc = "done"
  /\ regResult = "ok"
  /\ history = << "ok" >>
  /\ Len(RegCalls) = 3
  /\ RegCalls[1].st = 409
  /\ posted # OldDef
  /\ store = {posted}

\* The fetches answered 200, by position.
GoodFetches == {i \in 1..Len(calls) : calls[i].st = 200}

\* C36: the cache holds exactly the name-to-id pairs of the listing of the
\* latest fetch answered 200, nothing of an earlier one; it is empty while no
\* fetch was answered 200, and a fetch that fails leaves it as it was.
C36_CacheReplacedWholesale ==
  entry = "simple.discover" =>
    IF GoodFetches = {} THEN agentsCache = EmptyMap
    ELSE LET last == CHOOSE i \in GoodFetches : \A j \in GoodFetches : j <= i
             listing == calls[last].listing
         IN /\ DOMAIN agentsCache = {n \in DOMAIN listing : listing[n] # ""}
            /\ \A n \in DOMAIN agentsCache : agentsCache[n] = listing[n]

C36_Witness ==
  /\ entry = "simple.discover"
  /\ Len(calls) = 3
  /\ calls[1].st = 200 /\ "editor" \in DOMAIN AgentMapping(calls[1].listing)
  /\ calls[2].st = 200 /\ "editor" \notin DOMAIN AgentMapping(calls[2].listing)
  /\ calls[3].st = NoStatus
  /\ DOMAIN agentsCache = {"writer"}
  /\ agentsCache["writer"] = "abc-456"

\* C37: the text of each token/output event is written out by the step that
\* handles its line, after everything written for the lines before it.
C37_IncrementalFlush ==
  [][ ( /\ Len(linesSeen') = Len(linesSeen) + 1
        /\ IsEventLine(LineHandled, {"token", "llm_token", "output", "llm_output"}) ) =>
        printed' = printed \o TextOf(LineHandled)
    ]_vars

\* The part of the body received so far.
Received == SubSeq(respBody, 1, Len(respBody) - Len(unread))

\* C38: however the body is cut into chunks, the lines passed on and the
\* buffer are those of reading everything received so far as one chunk.
C38_ChunkingIndependent ==
  entry \in ChunkEntries =>
    /\ linesSeen = SplitLines(Received).lines
    /\ buffer = SplitLines(Received).rest

C38_Witness ==
  /\ entry \in ChunkEntries
  /\ pc = "k_read"
  /\ respBody = << "d", "\n", " ", "d", "d", "\n" >>
  /\ linesSeen = << << "d" >> >>
  /\ buffer = << " ", "d" >>
  /\ unread = << "d", "\n" >>

\* C39: when the stream has closed, every line of the body has been passed
\* on, the last one also when no newline ends it.
C39_LastLineHandled ==
  (entry \in ChunkEntries /\ pc = "k_closed") =>
    linesSeen = SplitLines(Append(respBody, "\n")).lines

====
